---- MODULE Spec2Model ----
(***************************************************************************)
(* A model of ssmconfig: the per-prefix single-flight fetch cache of the   *)
(* Loader (loader.go) and the refreshing handle built on it.               *)
(*                                                                         *)
(* Goroutines are the processes Procs.  Each call is cut into steps at the *)
(* accesses to shared memory (sync.Map operations, atomic.Pointer loads    *)
(* and stores, sync.Once, the handle's mutex).  Maps and cache entries are *)
(* heap objects with an identity, so that aliasing can be observed; an     *)
(* object no reference reaches is reclaimed, as by Go's garbage collector. *)
(***************************************************************************)
EXTENDS Integers, Sequences, FiniteSets, TLC

\* ------------------------------------------------------------------------
\* Bounds
\* ------------------------------------------------------------------------
NumProcs == 2

\* Calls made on the loader in one run, over all goroutines.
MaxCalls == 3

Procs == 1..NumProcs

\* Prefixes are paths, kept as sequences of segments: "/a/" and "/a/b/".
\* The empty path is the "" argument of InvalidateCache.
Prefixes == {<<"a">>, <<"a", "b">>}

AllPrefixes == <<>>

\* map[string]string contents: functions from a set of keys to strings.
Keys == {"k"}

Vals == {"v1"}

\* The string a caller writes when it mutates a map it was handed.
CallerVal == "w"

MapsOver(V) == UNION {[S -> V] : S \in SUBSET Keys}

\* What a successful loadFromSSM can return: a non-nil, possibly empty map.
FetchResults == MapsOver(Vals)

Contents == MapsOver(Vals \cup {CallerVal})

\* Heap sizes: every live object is referenced from the table, from an
\* entry, or from a local of one of the goroutines.
EntryIds == 1..(Cardinality(Prefixes) + NumProcs + 1)

MapIds == 1..(Cardinality(Prefixes) + 3 * NumProcs + 2)

NoEntry == 0

Nil == 0

\* A heap cell for a map: unused, or holding the map's contents.
FreeMap == [used |-> FALSE, c |-> <<>>]

MapObj(c) == [used |-> TRUE, c |-> c]

\* ------------------------------------------------------------------------
\* State
\* ------------------------------------------------------------------------
VARIABLES
    cache,      \* Loader.cache: prefix -> *cacheEntry (NoEntry: no key)
    entries,    \* heap of cacheEntry objects
    maps,       \* heap of map[string]string objects
    pc,         \* where each goroutine is
    op,         \* the call a goroutine is in
    arg,        \* the call's prefix argument
    cur,        \* the key an InvalidateCache is working on
    todo,       \* keys a Range has still to visit
    ent,        \* the local entry / entryPtr
    result,     \* the local result of the bypass path
    ret,        \* what the call returned
    seen,       \* history: the gate's state when line 246 loaded a nil
    attempt,    \* history: the underlying fetch this call ran or joined
    calls,      \* history: the number of calls started
    built,      \* LoadWithAutoRefreshAndLoader: no, loading, failed, yes
    config,     \* RefreshingConfig.config: the exposed record
    onChange,   \* RefreshingConfig.onChange is set
    recs,       \* heap of T objects
    phase,      \* where each goroutine is in Refresh or the constructor
    newConfig,  \* Refresh's local newConfig
    oldConfig,  \* Refresh's local oldConfig
    hasChanged, \* Refresh's local hasChanged
    notified,   \* history: the onChange call of the goroutine's last Refresh
    refreshed,  \* history: what the goroutine's last Refresh returned
    cancelled,  \* RefreshingConfig.ctx is done
    wg,         \* RefreshingConfig.wg: its counter
    loop,       \* the goroutine of start(): none, run, exited
    tick,       \* a value waits in ticker.C
    stopped,    \* history: a call of Stop has returned
    got,        \* the pointer a caller holds from Get or GetCopy
    via,        \* history: the accessor it came from
    mu,         \* RefreshingConfig.mu: its writer and its readers
    mapper,     \* a load past its fetch: its inputs, its stage, its outcome
    registry,   \* validators, parameterizedValidators and the builtin flag
    validatorsMu,        \* its writer and its readers
    builtinValidatorsMu, \* the goroutine that holds it, 0 for none
    vat,        \* where each goroutine is in a call on the registry
    vhist       \* history: registrations of the builtins, calls started

lvars == <<cache, entries, maps, pc, op, arg, cur, todo, ent, result, ret,
           seen, attempt, calls>>

\* the background goroutine of a handle
svars == <<cancelled, wg, loop, tick, stopped>>

\* the callers of the accessors
avars == <<got, via, mu>>

\* the load whose merge and mapping pass are followed
\* the package's validator registry and the calls on it
rvars == <<registry, validatorsMu, builtinValidatorsMu, vat, vhist>>

mvars == <<mapper, rvars>>

hvars == <<built, config, onChange, recs, phase, newConfig, oldConfig,
           hasChanged, notified, refreshed, svars, avars, mvars>>

vars == <<lvars, hvars>>

\* ------------------------------------------------------------------------
\* Objects
\* ------------------------------------------------------------------------
\* type cacheEntry struct { values; once }, with history fields:
\*   fetches  - how many times the gate ran loadFromSSM
\*   fetched  - what that fetch returned ("none" before it returns)
\*   nilled   - InvalidateCache stored nil into values
\*   bypassed - the useCache=false path stored into values
\*   origin   - who allocated it: "lazy" (LoadOrStore) or "invalidate"
NotFetched == [kind |-> "none", val |-> <<>>]

FreeEntry ==
    [values |-> Nil, once |-> "free", fetches |-> 0, fetched |-> NotFetched,
     nilled |-> FALSE, bypassed |-> FALSE, origin |-> "free", since |-> {}]

NewCacheEntry(origin) ==
    [values |-> Nil, once |-> "new", fetches |-> 0, fetched |-> NotFetched,
     nilled |-> FALSE, bypassed |-> FALSE, origin |-> origin, since |-> {}]

\* T objects: a struct with one string field, tagged ssm:"k".
RecIds == 1..(2 * NumProcs + 1)

FreeRec == [used |-> FALSE, c |-> [Value |-> ""]]

RecObj(c) == [used |-> TRUE, c |-> c]

\* Whether Refresh called onChange, and what the callback was shown.
NotNotified == [n |-> 0, old |-> [Value |-> ""], new |-> [Value |-> ""]]

Notified(old, new) == [n |-> 1, old |-> old, new |-> new]

NoRet == [kind |-> "none", ref |-> Nil, err |-> ""]

MapRet(r) == [kind |-> "map", ref |-> r, err |-> ""]

ErrRet(e) == [kind |-> "err", ref |-> Nil, err |-> e]

ErrFetch == "fetching parameters"

ErrFailedToLoad == "failed to load parameters for prefix"

Min(S) == CHOOSE x \in S : \A y \in S : x <= y

\* A fresh object: one that no live reference names.
AllocEntry(es) == Min({i \in EntryIds : es[i].once = "free"})

AllocMap(h) == Min({i \in MapIds : ~h[i].used})

\* make(map[string]string, len(src)) followed by the copy loop: the
\* object the copy lives in, and the heap once it is filled.
AliasRef(h, src) == src

CopyRef(h, src) == AllocMap(h)

CopyMap(h, src) == [h EXCEPT ![CopyRef(h, src)] = h[src]]

\* ------------------------------------------------------------------------
\* Garbage collection: the objects still reachable.
\* ------------------------------------------------------------------------
LiveEntries(c, e) ==
    ({c[k] : k \in Prefixes} \cup {e[p] : p \in Procs}) \ {NoEntry}

LiveMaps(c, es, e, res, r) ==
    ({es[i].values : i \in LiveEntries(c, e)}
        \cup {res[p] : p \in Procs}
        \cup {r[p].ref : p \in Procs}) \ {Nil}

\* The next state, with unreachable objects reclaimed.
Commit(c, es, h, e, res, r) ==
    /\ cache' = c
    /\ ent' = e
    /\ result' = res
    /\ ret' = r
    /\ entries' = [i \in EntryIds |->
                     IF i \in LiveEntries(c, e) THEN es[i] ELSE FreeEntry]
    /\ maps' = [i \in MapIds |->
                  IF i \in LiveMaps(c, es, e, res, r) THEN h[i] ELSE FreeMap]

\* No caller holds a pointer from an accessor.
Unlocked == [w |-> 0, r |-> {}]

\* The two maps of the package and the flag of ensureBuiltinValidators.
Registry(plain, parameterized, registered) ==
    [validators |-> plain, parameterizedValidators |-> parameterized,
     builtinValidatorsRegistered |-> registered]

NoValidators == Registry(<<>>, <<>>, FALSE)

\* A goroutine that is in no call on the registry; found is what its last
\* lookup returned.
AtRest ==
    [pc |-> "idle", name |-> <<>>, table |-> "none", todo |-> <<>>,
     found |-> FALSE]

\* The package as the program starts: no validator, no lock held.
NoValidation ==
    /\ registry = NoValidators
    /\ validatorsMu = Unlocked
    /\ builtinValidatorsMu = 0
    /\ vat = [p \in Procs |-> AtRest]
    /\ vhist = [installs |-> 0, calls |-> 0, live |-> {}, gone |-> {}]

\* No load is followed through its merge and mapping pass.
NoMapper == [stage |-> "idle"]

NoMapping == mapper = NoMapper /\ NoValidation

NoneHeld ==
    /\ got = [p \in Procs |-> Nil]
    /\ via = [p \in Procs |-> "none"]
    /\ mu = Unlocked

\* No background goroutine is modelled: the ticks are calls of Refresh.
NoLoop ==
    /\ cancelled = FALSE
    /\ wg = 0
    /\ loop = "none"
    /\ tick = FALSE
    /\ stopped = FALSE

\* A loader and a program that have done nothing.
Fresh ==
    /\ cache = [k \in Prefixes |-> NoEntry]
    /\ entries = [i \in EntryIds |-> FreeEntry]
    /\ maps = [i \in MapIds |-> FreeMap]
    /\ pc = [p \in Procs |-> "idle"]
    /\ op = [p \in Procs |-> "none"]
    /\ arg = [p \in Procs |-> AllPrefixes]
    /\ cur = [p \in Procs |-> AllPrefixes]
    /\ todo = [p \in Procs |-> {}]
    /\ ent = [p \in Procs |-> NoEntry]
    /\ result = [p \in Procs |-> Nil]
    /\ ret = [p \in Procs |-> NoRet]
    /\ seen = [p \in Procs |-> "none"]
    /\ attempt = [p \in Procs |-> "none"]
    /\ calls = 0
    /\ built = "no"
    /\ config = Nil
    /\ onChange = FALSE
    /\ recs = [i \in RecIds |-> FreeRec]
    /\ phase = [p \in Procs |-> "none"]
    /\ newConfig = [p \in Procs |-> Nil]
    /\ oldConfig = [p \in Procs |-> Nil]
    /\ hasChanged = [p \in Procs |-> FALSE]
    /\ notified = [p \in Procs |-> NotNotified]
    /\ refreshed = [p \in Procs |-> "none"]
    /\ NoLoop
    /\ NoneHeld

Init == Fresh /\ NoMapping

\* A goroutine starts a call when it is in none; what the previous call
\* returned stays in its hands until then.  The goroutines are
\* interchangeable, so they make their first calls in the order of their
\* numbers.
CanCall(p) ==
    /\ pc[p] = "idle"
    /\ calls < MaxCalls
    /\ \A q \in Procs : q < p => op[q] # "none"

\* The goroutine makes a call of its own on the loader or the handle.
Called(p) == CanCall(p) /\ calls' = calls + 1

\* The call in progress calls into the loader.
Nested == UNCHANGED calls

\* The call starts: what the previous call returned goes out of scope.
Enter(p, name, k, e, a) ==
    /\ op' = [op EXCEPT ![p] = name]
    /\ arg' = [arg EXCEPT ![p] = k]
    /\ seen' = [seen EXCEPT ![p] = "none"]
    /\ attempt' = [attempt EXCEPT ![p] = a]
    /\ Commit(cache, entries, maps, [ent EXCEPT ![p] = e],
              [result EXCEPT ![p] = Nil], [ret EXCEPT ![p] = NoRet])

\* The call goes on: its bookkeeping is untouched.
Stay == UNCHANGED <<op, arg, cur, todo, seen, attempt, calls>>

\* The call returns: its locals go out of scope.  How it came by its result
\* (attempt) is remembered until the goroutine's next call.
Leave(p, a) ==
    /\ pc' = [pc EXCEPT ![p] = "idle"]
    /\ op' = [op EXCEPT ![p] = "done"]
    /\ arg' = [arg EXCEPT ![p] = AllPrefixes]
    /\ cur' = [cur EXCEPT ![p] = AllPrefixes]
    /\ todo' = [todo EXCEPT ![p] = {}]
    /\ seen' = [seen EXCEPT ![p] = "none"]
    /\ attempt' = [attempt EXCEPT ![p] = a]
    /\ UNCHANGED calls

Drop(f, p, v) == [f EXCEPT ![p] = v]

\* ------------------------------------------------------------------------
\* The remote store: loadFromSSM either fails or returns a fresh map.
\* ------------------------------------------------------------------------
FetchOutcomes ==
    {[ok |-> TRUE, val |-> r] : r \in FetchResults}
        \cup {[ok |-> FALSE, val |-> <<>>]}

\* ------------------------------------------------------------------------
\* loadByPrefixWithCache(ctx, prefix, true)
\* ------------------------------------------------------------------------
\* sync.Map.LoadOrStore: the entry already stored for k, else the new one.
StoreAlways(c, k, new) == new

LoadOrStore(c, k, new) == IF c[k] # NoEntry THEN c[k] ELSE new

\* line 247: cachedValues != nil
NeverHit(e) == FALSE

IsHit(e) == e.values # Nil

\* sync.Once.Do runs f only for the first caller.
GateReopens(e) == e.once # "running"

GateOpen(e) == e.once = "new"

\* The once.Do body stores a snapshot only when loadErr == nil.
GateStoresAlways(o) == TRUE

GateStores(o) == o.ok

\* line 288: the gate has run and left no snapshot: (nil, error)
WaiterMissNil == [kind |-> "nil", ref |-> Nil, err |-> ""]

WaiterMiss == ErrRet(ErrFailedToLoad)

\* History of an entry: the refresh cycles whose InvalidateCache (part_002
\* line 210) had returned, or is the call storing the entry, when the entry
\* was put into the table and before their load (line 212) returned.
PastInvalidate(q) ==
    \/ phase[q] = "invalidate" /\ pc[q] = "idle"
    \/ phase[q] = "load"

Born(e, self) ==
    [e EXCEPT !.since = {q \in Procs : PastInvalidate(q)}
                        \cup {q \in self : phase[q] = "invalidate"}]

\* the cycle of q has its load result: its mark is dropped from the histories
Forget(es, q) ==
    [i \in EntryIds |-> [es[i] EXCEPT !.since = @ \ {q}]]

\* sync.Map.Load: the entry stored for exactly the key k
LoadShared(c, k) == c[<<"a">>]

Load(c, k) == c[k]

\* line 231: entryPtr, _ := l.cache.Load(prefix)
ResolveLoadEntry(p, k) ==
    /\ pc[p] = "idle"
    /\ Enter(p, "resolve", k, Load(cache, k), "none")
    /\ pc' = [pc EXCEPT ![p] = IF Load(cache, k) = NoEntry THEN "create"
                                                          ELSE "load"]
    /\ UNCHANGED <<cur, todo>>

\* lines 234-240: newEntry, LoadOrStore
ResolveCreate(p) ==
    /\ pc[p] = "create"
    /\ UNCHANGED hvars
    /\ LET new == AllocEntry(entries)
           e == LoadOrStore(cache, arg[p], new)
           es == IF e = new
                 THEN [entries EXCEPT ![new] = Born(NewCacheEntry("lazy"), {})]
                 ELSE entries
       IN Commit([cache EXCEPT ![arg[p]] = e], es, maps,
                 [ent EXCEPT ![p] = e], result, ret)
    /\ pc' = [pc EXCEPT ![p] = "load"]
    /\ Stay

\* lines 246-254: cachedValues := entry.values.Load(); a hit returns a copy
ResolveLoad(p) ==
    /\ pc[p] = "load"
    /\ UNCHANGED hvars
    /\ LET e == entries[ent[p]] IN
       IF IsHit(e)
       THEN /\ Commit(cache, entries, CopyMap(maps, e.values),
                      Drop(ent, p, NoEntry), result,
                      [ret EXCEPT ![p] = MapRet(CopyRef(maps, e.values))])
            /\ Leave(p, "hit")
       ELSE /\ seen' = [seen EXCEPT ![p] = e.once]
            /\ pc' = [pc EXCEPT ![p] = "once"]
            /\ UNCHANGED <<cache, entries, maps, ent, result, ret, op, arg,
                           cur, todo, attempt, calls>>

\* line 260: entry.once.Do(...): the first caller runs the fetch, the
\* others block until it has returned (or pass at once when it has).
ResolveOnce(p) ==
    /\ pc[p] = "once"
    /\ UNCHANGED hvars
    /\ LET e == entries[ent[p]] IN
       IF GateOpen(e)
       THEN /\ entries' = [entries EXCEPT ![ent[p]].once = "running",
                                          ![ent[p]].fetches = @ + 1]
            /\ attempt' = [attempt EXCEPT ![p] = "own"]
            /\ pc' = [pc EXCEPT ![p] = "fetching"]
       ELSE /\ attempt' = [attempt EXCEPT ![p] =
                             IF e.once = "running" \/ seen[p] # "done"
                             THEN "joined" ELSE "skipped"]
            /\ pc' = [pc EXCEPT ![p] = "wait"]
            /\ UNCHANGED entries
    /\ UNCHANGED <<cache, maps, op, arg, cur, todo, ent, result, ret, seen,
                   calls>>

\* lines 261-271, 273-275, 291-297: loadFromSSM returns inside once.Do; on
\* success a copy is stored in the entry and another copy is returned.
ResolveFetchDone(p) ==
    /\ pc[p] = "fetching"
    /\ UNCHANGED hvars
    /\ \E o \in FetchOutcomes :
         LET t == AllocMap(maps)
             h0 == [maps EXCEPT ![t] = MapObj(o.val)]
             c1 == CopyRef(h0, t)
             h1 == CopyMap(h0, t)
             c2 == CopyRef(h1, t)
             h2 == CopyMap(h1, t)
             es == [entries EXCEPT
                       ![ent[p]].once = "done",
                       ![ent[p]].fetched =
                           [kind |-> IF o.ok THEN "ok" ELSE "err",
                            val |-> o.val],
                       ![ent[p]].values = IF GateStores(o) THEN c1 ELSE @]
         IN IF o.ok
            THEN Commit(cache, es, h2, Drop(ent, p, NoEntry), result,
                        [ret EXCEPT ![p] = MapRet(c2)])
            ELSE Commit(cache, es, IF GateStores(o) THEN h1 ELSE maps,
                        Drop(ent, p, NoEntry), result,
                        [ret EXCEPT ![p] = ErrRet(ErrFetch)])
    /\ Leave(p, attempt[p])

\* lines 279-289: once.Do has returned without running the fetch here:
\* read the snapshot the runner left, or fail.
ResolveAfter(p) ==
    /\ pc[p] = "wait"
    /\ UNCHANGED hvars
    /\ entries[ent[p]].once = "done"
    /\ LET e == entries[ent[p]] IN
       IF e.values # Nil
       THEN Commit(cache, entries, CopyMap(maps, e.values),
                   Drop(ent, p, NoEntry), result,
                   [ret EXCEPT ![p] = MapRet(CopyRef(maps, e.values))])
       ELSE Commit(cache, entries, maps, Drop(ent, p, NoEntry), result,
                   [ret EXCEPT ![p] = WaiterMiss])
    /\ Leave(p, attempt[p])

\* ------------------------------------------------------------------------
\* loadByPrefixWithCache(ctx, prefix, false)
\* ------------------------------------------------------------------------
\* line 212: the fresh values are written back only into an existing entry.
NeverWritesBack(e) == FALSE

WritesBack(e) == e # NoEntry

\* line 205: result, err := l.loadFromSSM(ctx, prefix) is called
BypassStart(p, k) ==
    /\ pc[p] = "idle"
    /\ Enter(p, "bypass", k, NoEntry, "own")
    /\ pc' = [pc EXCEPT ![p] = "bfetch"]
    /\ UNCHANGED <<cur, todo>>

\* lines 205-211: loadFromSSM returns; on success entryPtr is loaded
BypassFetchDone(p) ==
    /\ pc[p] = "bfetch"
    /\ UNCHANGED hvars
    /\ \E o \in FetchOutcomes :
         IF o.ok
         THEN LET t == AllocMap(maps) IN
              /\ Commit(cache, entries, [maps EXCEPT ![t] = MapObj(o.val)],
                        [ent EXCEPT ![p] = cache[arg[p]]],
                        [result EXCEPT ![p] = t], ret)
              /\ pc' = [pc EXCEPT ![p] = "bstore"]
              /\ Stay
         ELSE /\ Commit(cache, entries, maps, ent, result,
                        [ret EXCEPT ![p] = ErrRet(ErrFetch)])
              /\ Leave(p, attempt[p])

\* lines 212-227: store a copy in the entry, return another copy
BypassStore(p) ==
    /\ pc[p] = "bstore"
    /\ UNCHANGED hvars
    /\ LET t == result[p]
           w == WritesBack(ent[p])
           c1 == CopyRef(maps, t)
           h1 == IF w THEN CopyMap(maps, t) ELSE maps
           es == IF w
                 THEN [entries EXCEPT ![ent[p]].values = c1,
                                      ![ent[p]].bypassed = TRUE]
                 ELSE entries
           c2 == CopyRef(h1, t)
           h2 == CopyMap(h1, t)
       IN Commit(cache, es, h2, Drop(ent, p, NoEntry),
                 [result EXCEPT ![p] = Nil], [ret EXCEPT ![p] = MapRet(c2)])
    /\ Leave(p, attempt[p])

\* ------------------------------------------------------------------------
\* InvalidateCache(prefix)
\* ------------------------------------------------------------------------
\* line 336: if prefix == "" every entry is cleared, else exactly one.
ClearsAllAlways(k) == TRUE

ClearsAll(k) == k = AllPrefixes

\* lines 342-344, 354-356: the entry stored in place of the old one
ReusedGate(old) ==
    [NewCacheEntry("invalidate") EXCEPT !.once = old.once]

ReplacementEntry(old) == NewCacheEntry("invalidate")

ExistingKeys == {k \in Prefixes : cache[k] # NoEntry}

\* lines 336-338: prefix == "": Range starts.  It visits every key present
\* when it starts and may or may not visit a key stored while it runs.
InvalidateAllStart(p, k) ==
    /\ pc[p] = "idle"
    /\ ClearsAll(k)
    /\ \E S \in SUBSET Prefixes :
         /\ ExistingKeys \subseteq S
         /\ todo' = [todo EXCEPT ![p] = S]
    /\ Enter(p, "invalidate", k, NoEntry, "none")
    /\ cur' = [cur EXCEPT ![p] = AllPrefixes]
    /\ pc' = [pc EXCEPT ![p] = "range"]

\* line 350: prefix != "": the entry of exactly that prefix is loaded; if
\* there is none, nothing is done.
\* line 350: the ok of l.cache.Load(prefix)
NeverFound(e) == FALSE

Found(e) == e # NoEntry

InvalidateOneStart(p, k) ==
    /\ pc[p] = "idle"
    /\ ~ClearsAll(k)
    /\ Enter(p, "invalidate", k, cache[k], "none")
    /\ cur' = [cur EXCEPT ![p] = k]
    /\ todo' = [todo EXCEPT ![p] = {}]
    /\ pc' = [pc EXCEPT ![p] = IF Found(cache[k]) THEN "inv_nil"
                                                  ELSE "inv_none"]

\* lines 358-360: no entry was found: return
InvalidateNone(p) ==
    /\ pc[p] = "inv_none"
    /\ UNCHANGED hvars
    /\ Commit(cache, entries, maps, ent, result, ret)
    /\ Leave(p, attempt[p])

\* line 338: Range calls f for the next key, with the value it holds now;
\* after the last key InvalidateCache returns.
RangeNext(p) ==
    /\ pc[p] = "range"
    /\ UNCHANGED hvars
    /\ IF todo[p] = {}
       THEN /\ Commit(cache, entries, maps, ent, result, ret)
            /\ Leave(p, attempt[p])
       ELSE \E k \in todo[p] :
              /\ todo' = [todo EXCEPT ![p] = @ \ {k}]
              /\ IF cache[k] # NoEntry
                 THEN /\ cur' = [cur EXCEPT ![p] = k]
                      /\ ent' = [ent EXCEPT ![p] = cache[k]]
                      /\ pc' = [pc EXCEPT ![p] = "inv_nil"]
                 ELSE UNCHANGED <<cur, ent, pc>>
              /\ UNCHANGED <<cache, entries, maps, op, arg, result, ret,
                             seen, attempt, calls>>

\* lines 340, 352: entry.values.Store(nil)
InvalidateNil(p) ==
    /\ pc[p] = "inv_nil"
    /\ UNCHANGED hvars
    /\ Commit(cache, [entries EXCEPT ![ent[p]].values = Nil,
                                     ![ent[p]].nilled = TRUE],
              maps, ent, result, ret)
    /\ pc' = [pc EXCEPT ![p] = "inv_store"]
    /\ Stay

\* lines 342-345, 354-357: l.cache.Store(key, newEntry); the single-prefix
\* branch then returns, Range goes on.
InvalidateStore(p) ==
    /\ pc[p] = "inv_store"
    /\ UNCHANGED hvars
    /\ LET new == AllocEntry(entries) IN
       Commit([cache EXCEPT ![cur[p]] = new],
              [entries EXCEPT ![new] = Born(ReplacementEntry(entries[ent[p]]),
                                            {p})],
              maps, Drop(ent, p, NoEntry), result, ret)
    /\ IF ClearsAll(arg[p])
       THEN pc' = [pc EXCEPT ![p] = "range"] /\ Stay
       ELSE Leave(p, attempt[p])

\* ------------------------------------------------------------------------
\* The caller
\* ------------------------------------------------------------------------
\* m["k"] = "w" on a map the caller was handed
Mutated(c) ==
    [x \in DOMAIN c \cup Keys |-> IF x \in Keys THEN CallerVal ELSE c[x]]

MutateReturned(p) ==
    /\ pc[p] = "idle"
    /\ UNCHANGED hvars
    /\ ret[p].kind = "map"
    /\ maps[ret[p].ref].c # Mutated(maps[ret[p].ref].c)
    /\ maps' = [maps EXCEPT ![ret[p].ref].c = Mutated(@)]
    /\ UNCHANGED <<cache, entries, pc, op, arg, cur, todo, ent, result, ret,
                   seen, attempt, calls>>

\* ------------------------------------------------------------------------
\* The calls a goroutine makes on the loader
\* ------------------------------------------------------------------------
\* lines 197-199: loadByPrefix is loadByPrefixWithCache(ctx, prefix, true)
LoadByPrefix(p, k) ==
    /\ Called(p)
    /\ ResolveLoadEntry(p, k)
    /\ UNCHANGED hvars

\* loadByPrefixWithCache(ctx, prefix, false)
LoadByPrefixNoCache(p, k) ==
    /\ Called(p)
    /\ BypassStart(p, k)
    /\ UNCHANGED hvars

\* InvalidateCache(prefix), in its two branches
InvalidateCacheAll(p, k) ==
    /\ Called(p)
    /\ InvalidateAllStart(p, k)
    /\ UNCHANGED hvars

InvalidateCacheOne(p, k) ==
    /\ Called(p)
    /\ InvalidateOneStart(p, k)
    /\ UNCHANGED hvars

\* ------------------------------------------------------------------------
\* RefreshingConfig[T], with T a struct of one string field tagged ssm:"k"
\* ------------------------------------------------------------------------
\* The prefix the handle is built for.
HandlePrefix == <<"a">>

\* mapToStruct for a string field that is not required: the value of its
\* key when the map has the key with a non-empty value, else the zero value.
MapToStruct(m) ==
    [Value |-> IF "k" \in DOMAIN m /\ m["k"] # "" THEN m["k"] ELSE ""]

AllocRec(h) == Min({i \in RecIds : ~h[i].used})

LiveRecs(cfg, nc, oc) ==
    ({cfg} \cup {nc[p] : p \in Procs} \cup {oc[p] : p \in Procs}) \ {Nil}

\* The handle's next state, with unreachable records reclaimed.
CommitRc(cfg, h, nc, oc) ==
    /\ config' = cfg
    /\ newConfig' = nc
    /\ oldConfig' = oc
    /\ recs' = [i \in RecIds |->
                  IF i \in LiveRecs(cfg, nc, oc) THEN h[i] ELSE FreeRec]

\* part_002 line 219: !reflect.DeepEqual(oldConfig, newConfig), on pointers
\* to T: the records they point to are compared field by field.
PointerChanged(h, old, new) == old # new

HasChanged(h, old, new) == h[old].c # h[new].c

\* part_002 lines 88-92: Get returns rc.config under the read lock.
Get == config

\* loader.go lines 101-129: the record LoadWithLoader makes of the values
\* loadByPrefix returned to p (no config files are configured).
Loaded(p) == RecObj(MapToStruct(maps[ret[p].ref].c))

\* part_002 line 58: the constructor calls LoadWithLoader.
ConstructStart(p) ==
    /\ UNCHANGED mvars
    /\ UNCHANGED <<svars, avars>>
    /\ built = "no"
    /\ Called(p)
    /\ ResolveLoadEntry(p, HandlePrefix)
    /\ built' = "loading"
    /\ phase' = [phase EXCEPT ![p] = "construct"]
    /\ UNCHANGED <<config, onChange, recs, newConfig, oldConfig, hasChanged,
                   notified, refreshed>>

\* part_002 lines 58-82, loader.go lines 101-129: the load has returned.  On
\* an error no handle is made; else the record is mapped from the values,
\* the options are applied and the handle is returned.
ConstructBuild(p) ==
    /\ UNCHANGED mvars
    /\ UNCHANGED avars
    /\ phase[p] = "construct"
    /\ pc[p] = "idle"
    /\ phase' = [phase EXCEPT ![p] = "none"]
    /\ IF ret[p].kind = "map"
       THEN /\ built' = "yes"
            /\ \E cb \in BOOLEAN : onChange' = cb
            /\ LET r == AllocRec(recs) IN
               CommitRc(r, [recs EXCEPT ![r] = Loaded(p)], newConfig, oldConfig)
       ELSE /\ built' = "failed"
            /\ UNCHANGED <<config, onChange, recs, newConfig, oldConfig>>
    /\ Commit(cache, entries, maps, ent, result, [ret EXCEPT ![p] = NoRet])
    /\ UNCHANGED <<pc, op, arg, cur, todo, seen, attempt, calls>>
    /\ UNCHANGED <<hasChanged, notified, refreshed>>

\* The constructor where the ticks are modelled as calls of Refresh.
ConstructLoaded(p) ==
    /\ ConstructBuild(p)
    /\ UNCHANGED svars

\* part_002 line 210: Refresh calls rc.loader.InvalidateCache(rc.prefix).
RefreshBegin(p) ==
    /\ UNCHANGED mvars
    /\ built = "yes"
    /\ phase[p] = "none"
    /\ InvalidateOneStart(p, HandlePrefix)
    /\ phase' = [phase EXCEPT ![p] = "invalidate"]
    /\ refreshed' = [refreshed EXCEPT ![p] = "none"]
    /\ notified' = [notified EXCEPT ![p] = NotNotified]
    /\ UNCHANGED <<built, config, onChange, recs, newConfig, oldConfig,
                   hasChanged>>

\* Refresh called by a goroutine of the program.
RefreshStart(p) ==
    /\ Called(p)
    /\ RefreshBegin(p)
    /\ UNCHANGED <<svars, avars>>

\* part_002 line 212, loader.go line 101: InvalidateCache has returned and
\* LoadWithLoader calls loadByPrefix.
RefreshLoad(p) ==
    /\ UNCHANGED mvars
    /\ UNCHANGED <<svars, avars>>
    /\ phase[p] = "invalidate"
    /\ Nested
    /\ ResolveLoadEntry(p, HandlePrefix)
    /\ phase' = [phase EXCEPT ![p] = "load"]
    /\ UNCHANGED <<built, config, onChange, recs, newConfig, oldConfig,
                   hasChanged, notified, refreshed>>

\* part_002 lines 212-215, loader.go lines 102-129: loadByPrefix has
\* returned.  On an error Refresh returns it; else the new record is mapped.
RefreshLoaded(p) ==
    /\ UNCHANGED mvars
    /\ UNCHANGED <<svars, avars>>
    /\ phase[p] = "load"
    /\ pc[p] = "idle"
    /\ IF ret[p].kind = "map"
       THEN /\ LET r == AllocRec(recs) IN
               CommitRc(config, [recs EXCEPT ![r] = Loaded(p)],
                        [newConfig EXCEPT ![p] = r], oldConfig)
            /\ phase' = [phase EXCEPT ![p] = "swap"]
            /\ UNCHANGED refreshed
       ELSE /\ phase' = [phase EXCEPT ![p] = "none"]
            /\ refreshed' = [refreshed EXCEPT ![p] = "err"]
            /\ UNCHANGED <<config, recs, newConfig, oldConfig>>
    /\ Commit(cache, Forget(entries, p), maps, ent, result, [ret EXCEPT ![p] = NoRet])
    /\ UNCHANGED <<pc, op, arg, cur, todo, seen, attempt, calls>>
    /\ UNCHANGED <<built, onChange, hasChanged, notified>>

\* part_002 lines 217-221: under rc.mu, the exposed record is replaced.
RefreshSwap(p) ==
    /\ UNCHANGED mvars
    /\ UNCHANGED <<svars, avars>>
    /\ phase[p] = "swap"
    /\ hasChanged' = [hasChanged EXCEPT ![p] = HasChanged(recs, config, newConfig[p])]
    /\ CommitRc(newConfig[p], recs, newConfig,
                [oldConfig EXCEPT ![p] = config])
    /\ phase' = [phase EXCEPT ![p] = "notify"]
    /\ UNCHANGED <<lvars, built, onChange, notified, refreshed>>

\* part_002 lines 223-228: onChange is called when it is set and the record
\* has changed; Refresh returns nil.
RefreshNotify(p) ==
    /\ UNCHANGED mvars
    /\ UNCHANGED <<svars, avars>>
    /\ phase[p] = "notify"
    /\ notified' = [notified EXCEPT ![p] =
                       IF onChange /\ hasChanged[p]
                       THEN Notified(recs[oldConfig[p]].c, recs[newConfig[p]].c)
                       ELSE NotNotified]
    /\ CommitRc(config, recs, [newConfig EXCEPT ![p] = Nil],
                [oldConfig EXCEPT ![p] = Nil])
    /\ hasChanged' = [hasChanged EXCEPT ![p] = FALSE]
    /\ refreshed' = [refreshed EXCEPT ![p] = "nil"]
    /\ phase' = [phase EXCEPT ![p] = "none"]
    /\ UNCHANGED <<lvars, built, onChange>>

\* ------------------------------------------------------------------------
\* Specifications
\* ------------------------------------------------------------------------
\* The loader as the package uses it: loadByPrefix (useCache = true) and
\* InvalidateCache, from any number of goroutines.
Next ==
    \E p \in Procs :
        \/ \E k \in Prefixes : LoadByPrefix(p, k)
        \/ \E k \in Prefixes \cup {AllPrefixes} : InvalidateCacheAll(p, k)
        \/ \E k \in Prefixes \cup {AllPrefixes} : InvalidateCacheOne(p, k)
        \/ ResolveCreate(p)
        \/ ResolveLoad(p)
        \/ ResolveOnce(p)
        \/ ResolveFetchDone(p)
        \/ ResolveAfter(p)
        \/ InvalidateNone(p)
        \/ RangeNext(p)
        \/ InvalidateNil(p)
        \/ InvalidateStore(p)

Spec == Init /\ [][Next]_vars

\* loadByPrefixWithCache with useCache true and false.
NextBypass ==
    \E p \in Procs :
        \/ \E k \in Prefixes : LoadByPrefix(p, k)
        \/ \E k \in Prefixes : LoadByPrefixNoCache(p, k)
        \/ ResolveCreate(p)
        \/ ResolveLoad(p)
        \/ ResolveOnce(p)
        \/ ResolveFetchDone(p)
        \/ ResolveAfter(p)
        \/ BypassFetchDone(p)
        \/ BypassStore(p)

SpecBypass == Init /\ [][NextBypass]_vars

\* Callers that write into the maps they were handed, on one prefix.
NextMutate ==
    \E p \in Procs :
        \/ LoadByPrefix(p, <<"a">>)
        \/ LoadByPrefixNoCache(p, <<"a">>)
        \/ ResolveCreate(p)
        \/ ResolveLoad(p)
        \/ ResolveOnce(p)
        \/ ResolveFetchDone(p)
        \/ ResolveAfter(p)
        \/ BypassFetchDone(p)
        \/ BypassStore(p)
        \/ MutateReturned(p)

SpecMutate == Init /\ [][NextMutate]_vars

\* A refreshing handle on one prefix: it is constructed, and goroutines (the
\* background loop on a tick, callers of Refresh) run refresh cycles.  The
\* prefix has an entry from the construction on, so InvalidateCache always
\* finds one.
NextRefresh ==
    \E p \in Procs :
        \/ ConstructStart(p)
        \/ ConstructLoaded(p)
        \/ RefreshStart(p)
        \/ RefreshLoad(p)
        \/ RefreshLoaded(p)
        \/ RefreshSwap(p)
        \/ RefreshNotify(p)
        \/ ResolveCreate(p)
        \/ ResolveLoad(p)
        \/ ResolveOnce(p)
        \/ ResolveFetchDone(p)
        \/ ResolveAfter(p)
        \/ InvalidateNil(p)
        \/ InvalidateStore(p)

SpecRefresh == Init /\ [][NextRefresh]_vars

\* Other users of the handle's loader, beside the refresh cycles: loads of
\* the handle's prefix (loader.go lines 99-102) and InvalidateCache calls
\* (lines 335-360) from goroutines that are not inside a cycle.
LoadBeside(p) ==
    /\ built = "yes"
    /\ phase[p] = "none"
    /\ LoadByPrefix(p, HandlePrefix)

InvalidateBeside(p) ==
    /\ built = "yes"
    /\ phase[p] = "none"
    /\ \E k \in Prefixes : InvalidateCacheOne(p, k)

\* The state in which LoadWithAutoRefreshAndLoader (part_002 lines 54-83)
\* returns a handle: goroutine 1 has made the one load, of content c, on a
\* loader not used before; cb tells whether WithOnChange was given.
Built(c, cb) ==
    /\ cache = [k \in Prefixes |-> IF k = HandlePrefix THEN 1 ELSE NoEntry]
    /\ entries = [i \in EntryIds |->
                    IF i = 1
                    THEN [NewCacheEntry("lazy") EXCEPT
                             !.values = 2, !.once = "done", !.fetches = 1,
                             !.fetched = [kind |-> "ok", val |-> c]]
                    ELSE FreeEntry]
    /\ maps = [i \in MapIds |-> IF i = 2 THEN MapObj(c) ELSE FreeMap]
    /\ pc = [p \in Procs |-> "idle"]
    /\ op = [p \in Procs |-> IF p = 1 THEN "done" ELSE "none"]
    /\ arg = [p \in Procs |-> AllPrefixes]
    /\ cur = [p \in Procs |-> AllPrefixes]
    /\ todo = [p \in Procs |-> {}]
    /\ ent = [p \in Procs |-> NoEntry]
    /\ result = [p \in Procs |-> Nil]
    /\ ret = [p \in Procs |-> NoRet]
    /\ seen = [p \in Procs |-> "none"]
    /\ attempt = [p \in Procs |-> IF p = 1 THEN "own" ELSE "none"]
    /\ calls = 1
    /\ built = "yes"
    /\ config = 1
    /\ onChange = cb
    /\ recs = [i \in RecIds |-> IF i = 1 THEN RecObj(MapToStruct(c)) ELSE FreeRec]
    /\ phase = [p \in Procs |-> "none"]
    /\ newConfig = [p \in Procs |-> Nil]
    /\ oldConfig = [p \in Procs |-> Nil]
    /\ hasChanged = [p \in Procs |-> FALSE]
    /\ notified = [p \in Procs |-> NotNotified]
    /\ refreshed = [p \in Procs |-> "none"]

\* A handle without callback, whose loader is used by refresh cycles, loads
\* and invalidations.
InitFresh == NoLoop /\ NoneHeld /\ NoMapping /\ \E c \in FetchResults : Built(c, FALSE)

NextFresh ==
    \E p \in Procs :
        \/ RefreshStart(p)
        \/ RefreshLoad(p)
        \/ RefreshLoaded(p)
        \/ RefreshSwap(p)
        \/ RefreshNotify(p)
        \/ LoadBeside(p)
        \/ InvalidateBeside(p)
        \/ ResolveLoad(p)
        \/ ResolveOnce(p)
        \/ ResolveFetchDone(p)
        \/ ResolveAfter(p)
        \/ InvalidateNone(p)
        \/ InvalidateNil(p)
        \/ InvalidateStore(p)

SpecFresh == InitFresh /\ [][NextFresh]_vars

\* ------------------------------------------------------------------------
\* The background goroutine and Stop
\* ------------------------------------------------------------------------
\* The goroutine that start() launches takes the last goroutine number; the
\* others are goroutines of the program.
Loop == NumProcs

\* part_002 lines 54-83 and 239-243: the handle is returned with wg.Add(1)
\* done and the goroutine launched; its ticker has not fired.
Started ==
    /\ cancelled = FALSE
    /\ wg = 1
    /\ loop = "run"
    /\ tick = FALSE
    /\ stopped = FALSE

\* a goroutine that a failed Refresh would end
StopsOnError ==
    loop = "run" /\ phase[Loop] = "none" /\ pc[Loop] = "idle"
        /\ refreshed[Loop] # "err"

\* The goroutine is at its select (line 247), not inside Refresh: the error
\* of a Refresh is logged (lines 251-253) and the loop goes on.
AtSelect == loop = "run" /\ phase[Loop] = "none" /\ pc[Loop] = "idle"

\* The ticker sends into ticker.C, a channel of capacity one; a tick that
\* finds the channel full is dropped.  ticker.Stop (line 243) ends it.
Tick ==
    /\ UNCHANGED mvars
    /\ UNCHANGED avars
    /\ loop = "run"
    /\ ~tick
    /\ tick' = TRUE
    /\ UNCHANGED <<lvars, built, config, onChange, recs, phase, newConfig,
                   oldConfig, hasChanged, notified, refreshed>>
    /\ UNCHANGED <<cancelled, wg, loop, stopped>>

\* line 250-251: case <-ticker.C: rc.Refresh()
LoopTick ==
    /\ UNCHANGED avars
    /\ AtSelect
    /\ tick
    /\ tick' = FALSE
    /\ calls < MaxCalls
    /\ calls' = calls + 1
    /\ RefreshBegin(Loop)
    /\ UNCHANGED <<cancelled, wg, loop, stopped>>

\* lines 248-249, 241: case <-rc.ctx.Done(): return, and the deferred
\* ticker.Stop() and rc.wg.Done()
LoopExit ==
    /\ UNCHANGED mvars
    /\ UNCHANGED avars
    /\ AtSelect
    /\ cancelled
    /\ loop' = "exited"
    /\ wg' = wg - 1
    /\ UNCHANGED <<lvars, built, config, onChange, recs, phase, newConfig,
                   oldConfig, hasChanged, notified, refreshed>>
    /\ UNCHANGED <<cancelled, tick, stopped>>

\* The context the handle was made from is cancelled by its owner.
CancelParent ==
    /\ UNCHANGED mvars
    /\ UNCHANGED avars
    /\ loop # "none"
    /\ ~cancelled
    /\ cancelled' = TRUE
    /\ UNCHANGED <<lvars, built, config, onChange, recs, phase, newConfig,
                   oldConfig, hasChanged, notified, refreshed>>
    /\ UNCHANGED <<wg, loop, tick, stopped>>

\* line 233: Stop calls rc.cancel()
StopCancel(p) ==
    /\ UNCHANGED mvars
    /\ UNCHANGED avars
    /\ p # Loop
    /\ built = "yes"
    /\ phase[p] = "none"
    /\ CanCall(p)
    /\ calls' = calls + 1
    /\ cancelled' = TRUE
    /\ phase' = [phase EXCEPT ![p] = "wait"]
    /\ UNCHANGED <<cache, entries, maps, pc, op, arg, cur, todo, ent, result,
                   ret, seen, attempt>>
    /\ UNCHANGED <<built, config, onChange, recs, newConfig, oldConfig,
                   hasChanged, notified, refreshed>>
    /\ UNCHANGED <<wg, loop, tick, stopped>>

\* line 234: rc.wg.Wait() returns when the counter is zero
ReturnsAtOnce == TRUE

Waited == wg = 0

StopReturn(p) ==
    /\ UNCHANGED mvars
    /\ UNCHANGED avars
    /\ phase[p] = "wait"
    /\ Waited
    /\ phase' = [phase EXCEPT ![p] = "none"]
    /\ stopped' = TRUE
    /\ UNCHANGED <<lvars, built, config, onChange, recs, newConfig,
                   oldConfig, hasChanged, notified, refreshed>>
    /\ UNCHANGED <<cancelled, wg, loop, tick>>

\* A handle whose refresh cycles are those of its background goroutine, and
\* goroutines of the program that call Stop.  The goroutine is the loader's
\* only user, so no load of its waits at a gate another call is running.
InitStop == Started /\ NoneHeld /\ NoMapping /\ \E c \in FetchResults, cb \in BOOLEAN : Built(c, cb)

NextStop ==
    \/ Tick
    \/ LoopTick
    \/ LoopExit
    \/ CancelParent
    \/ \E p \in Procs :
        \/ StopCancel(p)
        \/ StopReturn(p)
        \/ RefreshLoad(p)
        \/ RefreshLoaded(p)
        \/ RefreshSwap(p)
        \/ RefreshNotify(p)
        \/ ResolveLoad(p)
        \/ ResolveOnce(p)
        \/ ResolveFetchDone(p)
        \/ InvalidateNil(p)
        \/ InvalidateStore(p)

SpecStop == InitStop /\ [][NextStop]_vars

\* ------------------------------------------------------------------------
\* Get, GetCopy and what the callers do with the pointers
\* ------------------------------------------------------------------------
\* The records some pointer of the handle or of a caller leads to.
Held(cfg, g) == ({cfg} \cup {g[p] : p \in Procs}) \ {Nil}

CommitGot(h, g) ==
    /\ got' = g
    /\ recs' = [i \in RecIds |-> IF i \in Held(config, g) THEN h[i] ELSE FreeRec]

\* sync.RWMutex: RLock waits while a writer holds the lock, Lock waits while
\* a writer or a reader holds it.
CanRLock(m) == m.w = 0

LockFree(m) == TRUE

CanLock(m) == m.w = 0 /\ m.r = {}

\* part_002 lines 88-92: Get returns rc.config, read under the read lock.
GetCall(p) ==
    /\ UNCHANGED mvars
    /\ built = "yes"
    /\ phase[p] = "none"
    /\ Called(p)
    /\ CanRLock(mu)
    /\ UNCHANGED mu
    /\ CommitGot(recs, [got EXCEPT ![p] = Get])
    /\ via' = [via EXCEPT ![p] = "get"]
    /\ UNCHANGED <<cache, entries, maps, pc, op, arg, cur, todo, ent, result,
                   ret, seen, attempt>>
    /\ UNCHANGED <<built, config, onChange, phase, newConfig, oldConfig,
                   hasChanged, notified, refreshed, svars>>

\* lines 103-119, 143-148: deepCopy allocates a T with reflect.New and
\* copyValue copies the struct field by field; a string is copied by value.
DeepCopy(c) == [Value |-> c.Value]

\* line 119: the pointer deepCopy returns is that of the new T
Shared(src, dst) == src

Copied(src, dst) == dst

\* lines 96-100: GetCopy returns deepCopy(rc.config), made under the read
\* lock; rc.config is not nil on a constructed handle.
GetCopyCall(p) ==
    /\ UNCHANGED mvars
    /\ built = "yes"
    /\ phase[p] = "none"
    /\ Called(p)
    /\ CanRLock(mu)
    /\ UNCHANGED mu
    /\ LET dst == AllocRec(recs) IN
       CommitGot([recs EXCEPT ![dst] = RecObj(DeepCopy(recs[config].c))],
                 [got EXCEPT ![p] = Copied(config, dst)])
    /\ via' = [via EXCEPT ![p] = "copy"]
    /\ UNCHANGED <<cache, entries, maps, pc, op, arg, cur, todo, ent, result,
                   ret, seen, attempt>>
    /\ UNCHANGED <<built, config, onChange, phase, newConfig, oldConfig,
                   hasChanged, notified, refreshed, svars>>

\* cfg.Value = "w" through the pointer the caller holds
Modify(p) ==
    /\ UNCHANGED mvars
    /\ got[p] # Nil
    /\ recs[got[p]].c.Value # CallerVal
    /\ recs' = [recs EXCEPT ![got[p]].c = [Value |-> CallerVal]]
    /\ UNCHANGED <<lvars, built, config, onChange, phase, newConfig,
                   oldConfig, hasChanged, notified, refreshed, svars, avars>>

\* A constructed handle and callers of its accessors.
InitAccess ==
    NoLoop /\ NoneHeld /\ NoMapping /\ \E c \in FetchResults, cb \in BOOLEAN : Built(c, cb)

NextAccess ==
    \E p \in Procs :
        \/ GetCall(p)
        \/ GetCopyCall(p)
        \/ Modify(p)

SpecAccess == InitAccess /\ [][NextAccess]_vars

\* ------------------------------------------------------------------------
\* Refresh, with the steps of its lock and of a callback that calls Get
\* ------------------------------------------------------------------------
\* part_002 lines 217-219: rc.mu.Lock(); oldConfig := rc.config;
\* hasChanged := !reflect.DeepEqual(oldConfig, newConfig)
RefreshLock(p) ==
    /\ UNCHANGED mvars
    /\ phase[p] = "swap"
    /\ CanLock(mu)
    /\ mu' = [mu EXCEPT !.w = p]
    /\ hasChanged' = [hasChanged EXCEPT ![p] = HasChanged(recs, config, newConfig[p])]
    /\ CommitRc(config, recs, newConfig, [oldConfig EXCEPT ![p] = config])
    /\ phase' = [phase EXCEPT ![p] = "locked"]
    /\ UNCHANGED <<lvars, built, onChange, notified, refreshed, svars, got, via>>

\* line 221: rc.mu.Unlock()
HoldsOn(m, p) == m

Unlock(m, p) == [m EXCEPT !.w = IF @ = p THEN 0 ELSE @]

\* lines 220-221: rc.config = newConfig; rc.mu.Unlock()
RefreshStore(p) ==
    /\ UNCHANGED mvars
    /\ phase[p] = "locked"
    /\ CommitRc(newConfig[p], recs, newConfig, oldConfig)
    /\ mu' = Unlock(mu, p)
    /\ phase' = [phase EXCEPT ![p] = "call"]
    /\ UNCHANGED <<lvars, built, onChange, hasChanged, notified, refreshed,
                   svars, got, via>>

\* What Refresh leaves when it returns nil (line 228).
RefreshReturn(p) ==
    /\ CommitRc(config, recs, [newConfig EXCEPT ![p] = Nil],
                [oldConfig EXCEPT ![p] = Nil])
    /\ hasChanged' = [hasChanged EXCEPT ![p] = FALSE]
    /\ refreshed' = [refreshed EXCEPT ![p] = "nil"]
    /\ phase' = [phase EXCEPT ![p] = "none"]

\* lines 224-228: without a callback, or with an unchanged record, Refresh
\* returns; else it calls rc.onChange(oldConfig, newConfig).
RefreshCall(p) ==
    /\ UNCHANGED mvars
    /\ phase[p] = "call"
    /\ IF onChange /\ hasChanged[p]
       THEN /\ notified' = [notified EXCEPT ![p] =
                   Notified(recs[oldConfig[p]].c, recs[newConfig[p]].c)]
            /\ phase' = [phase EXCEPT ![p] = "callback"]
            /\ UNCHANGED <<config, recs, newConfig, oldConfig, hasChanged,
                           refreshed>>
       ELSE /\ notified' = [notified EXCEPT ![p] = NotNotified]
            /\ RefreshReturn(p)
    /\ UNCHANGED <<lvars, built, onChange, svars, avars>>

\* The callback calls rc.Get(): lines 89 and 91, RLock and the read
CallbackRLock(p) ==
    /\ UNCHANGED mvars
    /\ phase[p] = "callback"
    /\ CanRLock(mu)
    /\ mu' = [mu EXCEPT !.r = @ \cup {p}]
    /\ got' = [got EXCEPT ![p] = Get]
    /\ via' = [via EXCEPT ![p] = "get"]
    /\ phase' = [phase EXCEPT ![p] = "reading"]
    /\ UNCHANGED <<lvars, built, config, onChange, recs, newConfig, oldConfig,
                   hasChanged, notified, refreshed, svars>>

\* line 90: the deferred RUnlock; Get, the callback and Refresh return
CallbackDone(p) ==
    /\ UNCHANGED mvars
    /\ phase[p] = "reading"
    /\ mu' = [mu EXCEPT !.r = @ \ {p}]
    /\ got' = [got EXCEPT ![p] = Nil]
    /\ RefreshReturn(p)
    /\ UNCHANGED <<lvars, built, onChange, notified, svars, via>>

\* A handle with a callback that calls Get, built when the parameter had a
\* value, and refreshed by the goroutines.
InitLock == NoLoop /\ NoneHeld /\ NoMapping /\ Built([k \in Keys |-> "v1"], TRUE)

NextLock ==
    \E p \in Procs :
        \/ RefreshStart(p)
        \/ RefreshLoad(p)
        \/ RefreshLoaded(p)
        \/ RefreshLock(p)
        \/ RefreshStore(p)
        \/ RefreshCall(p)
        \/ CallbackRLock(p)
        \/ CallbackDone(p)
        \/ ResolveLoad(p)
        \/ ResolveOnce(p)
        \/ ResolveFetchDone(p)
        \/ ResolveAfter(p)
        \/ InvalidateNil(p)
        \/ InvalidateStore(p)

SpecLock == InitLock /\ [][NextLock]_vars

\* The steps that continue a call goroutine p is in: the Go scheduler runs
\* every goroutine that can run.
Continue(p) ==
    \/ RefreshLoad(p)
    \/ RefreshLoaded(p)
    \/ RefreshLock(p)
    \/ RefreshStore(p)
    \/ RefreshCall(p)
    \/ CallbackRLock(p)
    \/ CallbackDone(p)
    \/ ResolveLoad(p)
    \/ ResolveOnce(p)
    \/ ResolveFetchDone(p)
    \/ ResolveAfter(p)
    \/ InvalidateNil(p)
    \/ InvalidateStore(p)

SpecLockFair == SpecLock /\ \A p \in Procs : WF_vars(Continue(p))

\* ------------------------------------------------------------------------
\* The constructor, with rc.start()
\* ------------------------------------------------------------------------
\* part_002 lines 59-61: on an error the constructor returns before
\* rc.start() (line 80)
StartsAlways(r) == TRUE

StartsLoop(r) == r.kind = "map"

\* lines 58-82 and 239-243: the load has returned; a handle is made and its
\* goroutine launched, or the error is returned.
ConstructStarted(p) ==
    /\ ConstructBuild(p)
    /\ IF StartsLoop(ret[p])
       THEN /\ wg' = wg + 1
            /\ loop' = "run"
            /\ UNCHANGED <<cancelled, tick, stopped>>
       ELSE UNCHANGED svars

\* A loader not used before, one construction of a handle on it, and the
\* handle's goroutine with its ticker.
NextConstruct ==
    \/ Tick
    \/ LoopTick
    \/ \E p \in Procs :
        \/ ConstructStart(p)
        \/ ConstructStarted(p)
        \/ RefreshLoad(p)
        \/ RefreshLoaded(p)
        \/ RefreshSwap(p)
        \/ RefreshNotify(p)
        \/ ResolveCreate(p)
        \/ ResolveLoad(p)
        \/ ResolveOnce(p)
        \/ ResolveFetchDone(p)
        \/ InvalidateNil(p)
        \/ InvalidateStore(p)

SpecConstruct == Init /\ [][NextConstruct]_vars

\* ------------------------------------------------------------------------
\* Strings, and the validator registry as validateField uses it
\* ------------------------------------------------------------------------
\* A string is the sequence of its pieces; a separator ("/", ",", ":", " ")
\* is a piece of its own and no other piece holds one.  "sub/leaf" is
\* <<"sub", "/", "leaf">>, "minlen:3" is <<"minlen", ":", "3">>, "" is <<>>.
HasPrefix(s, prefix) ==
    Len(s) >= Len(prefix) /\ SubSeq(s, 1, Len(prefix)) = prefix

TrimPrefix(s, prefix) ==
    IF HasPrefix(s, prefix) THEN SubSeq(s, Len(prefix) + 1, Len(s)) ELSE s

\* strings.Index: the place of the first sep in s, 0 when there is none
Index(s, sep) ==
    IF \E i \in 1..Len(s) : s[i] = sep
    THEN CHOOSE i \in 1..Len(s) : s[i] = sep /\ \A j \in 1..(i - 1) : s[j] # sep
    ELSE 0

RECURSIVE Split(_, _)
Split(s, sep) ==
    IF Index(s, sep) = 0 THEN <<s>>
    ELSE <<SubSeq(s, 1, Index(s, sep) - 1)>>
         \o Split(SubSeq(s, Index(s, sep) + 1, Len(s)), sep)

\* strings.SplitN(s, sep, 2): s is cut at its first sep only
WholeSplit(s, sep) == Split(s, sep)

SplitN2(s, sep) ==
    IF Index(s, sep) = 0 THEN <<s>>
    ELSE <<SubSeq(s, 1, Index(s, sep) - 1),
           SubSeq(s, Index(s, sep) + 1, Len(s))>>

RECURSIVE TrimSpace(_)
TrimSpace(s) ==
    IF s = <<>> THEN s
    ELSE IF s[1] = " " THEN TrimSpace(Tail(s))
    ELSE IF s[Len(s)] = " " THEN TrimSpace(SubSeq(s, 1, Len(s) - 1))
    ELSE s

\* The characters of the values the model gives to fields.
Chars(str) == IF str = "" THEN <<>> ELSE <<str>>

\* strconv.ParseInt, strconv.Atoi on the numerals of the model
Parsed == ("1" :> 1) @@ ("2" :> 2) @@ ("8" :> 8)

Atoi(params) ==
    IF Len(params) = 1 /\ params[1] \in DOMAIN Parsed
    THEN [ok |-> TRUE, v |-> Parsed[params[1]]]
    ELSE [ok |-> FALSE, v |-> 0]

\* A field's realized value as a validator receives it.
Value(kind, v) == [kind |-> kind, v |-> v]

\* The validator functions: the six that RegisterBuiltinValidators
\* installs, and the callers' own: "v1" returns nil, "test" returns nil for
\* the string Valid, "same" returns nil for a string equal to its params.
Valid == "f"

isValidEmail(email) ==
    LET c == Chars(email)
        ats == {i \in 1..Len(c) : c[i] = "@"}
    IN /\ Len(c) >= 3
       /\ Cardinality(ats) = 1
       /\ \E at \in ats : \E dot \in (at + 1)..(Len(c) - 1) :
             /\ at > 1
             /\ c[dot] = "."
             /\ \A j \in (dot + 1)..Len(c) : c[j] # "."

isValidURL(url) ==
    LET c == Chars(url)
    IN \/ HasPrefix(c, <<"h", "t", "t", "p", ":", "/", "/">>)
       \/ HasPrefix(c, <<"h", "t", "t", "p", "s", ":", "/", "/">>)

Accepts(fn, value, params) ==
    CASE fn = "v1" -> TRUE
      [] fn = "test" -> value.kind = "string" /\ value.v = Valid
      [] fn = "same" -> value.kind = "string" /\ Chars(value.v) = params
      [] fn = "email" -> value.kind = "string" /\ isValidEmail(value.v)
      [] fn = "url" -> value.kind = "string" /\ isValidURL(value.v)
      [] fn = "minlen" -> /\ Atoi(params).ok
                          /\ value.kind = "string"
                          /\ Len(Chars(value.v)) >= Atoi(params).v
      [] fn = "maxlen" -> /\ Atoi(params).ok
                          /\ value.kind = "string"
                          /\ Len(Chars(value.v)) <= Atoi(params).v
      [] fn = "min" -> /\ Atoi(params).ok
                       /\ value.kind = "int"
                       /\ value.v >= Atoi(params).v
      [] fn = "max" -> /\ Atoi(params).ok
                       /\ value.kind = "int"
                       /\ value.v <= Atoi(params).v

BuiltinPlain == (<<"email">> :> "email") @@ (<<"url">> :> "url")

BuiltinParameterized ==
    (<<"minlen">> :> "minlen") @@ (<<"maxlen">> :> "maxlen")
    @@ (<<"min">> :> "min") @@ (<<"max">> :> "max")

\* part_000 lines 148-255: each name is assigned, whatever it held
RegisterBuiltinValidators(reg) ==
    [reg EXCEPT !.validators = BuiltinPlain @@ @,
                !.parameterizedValidators = BuiltinParameterized @@ @]

\* part_000 lines 138-145
InstallsBuiltins(reg) ==
    [RegisterBuiltinValidators(reg)
        EXCEPT !.builtinValidatorsRegistered = TRUE]

ensureBuiltinValidators(reg) ==
    IF reg.builtinValidatorsRegistered THEN reg ELSE InstallsBuiltins(reg)

\* What a call of validateField returns, and, as history, the validators it
\* has invoked, in order: the field, the spec, the map the validator came
\* from and the value it was given.
Invoked(fieldName, spec, from, value) ==
    [field |-> fieldName, spec |-> spec, from |-> from, value |-> value]

Checked(err, spec, fieldName, ran) ==
    [err |-> err, spec |-> spec, field |-> fieldName, ran |-> ran]

\* part_000 lines 111-118: the parameterized map is looked at first
ParamsFirst(params) == params # <<>>

\* part_000 lines 113-116 and 122-125: a validator's error is returned
Ignored(accepted) == TRUE

Heeded(accepted) == accepted

\* part_000 lines 96-129: the specs from the i-th on
RECURSIVE validateFrom(_, _, _, _, _, _)
validateFrom(value, specs, i, fieldName, reg, ran) ==
    IF i > Len(specs) THEN Checked("nil", <<>>, fieldName, ran)
    ELSE
    LET validatorSpec == TrimSpace(specs[i])
        parts == SplitN2(validatorSpec, ":")
        validatorKey == parts[1]
        params == IF Len(parts) > 1 THEN parts[2] ELSE <<>>
    IN IF validatorSpec = <<>>
       THEN validateFrom(value, specs, i + 1, fieldName, reg, ran)
       ELSE IF /\ ParamsFirst(params)
               /\ validatorKey \in DOMAIN reg.parameterizedValidators
       THEN LET now == Append(ran, Invoked(fieldName, validatorSpec,
                                           "parameterized", value))
            IN IF Heeded(Accepts(reg.parameterizedValidators[validatorKey],
                                 value, params))
               THEN validateFrom(value, specs, i + 1, fieldName, reg, now)
               ELSE Checked("validation failed", validatorSpec, fieldName,
                            now)
       ELSE IF validatorKey \in DOMAIN reg.validators
       THEN LET now == Append(ran, Invoked(fieldName, validatorSpec, "plain",
                                           value))
            IN IF Heeded(Accepts(reg.validators[validatorKey], value, <<>>))
               THEN validateFrom(value, specs, i + 1, fieldName, reg, now)
               ELSE Checked("validation failed", validatorSpec, fieldName,
                            now)
       ELSE Checked("not found", validatorSpec, fieldName, ran)

\* part_000 lines 73-132, for a field that is no pointer
validateField(value, validatorName, fieldName, reg, ran) ==
    IF validatorName = <<>> THEN Checked("nil", <<>>, fieldName, ran)
    ELSE validateFrom(value, Split(validatorName, ","), 1, fieldName, reg,
                      ran)

\* ------------------------------------------------------------------------
\* LoadWithLoader past its fetch: the merge and the mapping pass
\* ------------------------------------------------------------------------
\* The destination type of the loads that are followed:
\*   type Inner  struct { Leaf string `ssm:"leaf" env:"LEAF" required:".."
\*                                    validate:".."` }
\*   type Config struct { Top  string `ssm:"top"  env:"TOP"  required:".."
\*                                    validate:".."`
\*                        Sub  Inner  `ssm:"sub"  required:".." validate:".."`
\*                        Port int    `ssm:"port" validate:".."` }
\* Keys and tags are strings: <<"sub", "/", "leaf">> is the key "sub/leaf"
\* and <<>> is the empty key, or a tag that is not there.
Field(name, kind, ssm, env, required, validate, fields) ==
    [name |-> name, kind |-> kind, ssm |-> ssm, env |-> env,
     required |-> required, validate |-> validate, fields |-> fields]

RequiredTags == {"", "true"}

TaggedType(req, val) ==
    << Field("Top", "string", <<"top">>, "TOP", req.Top, val.Top, <<>>),
       Field("Sub", "struct", <<"sub">>, "", req.Sub, val.Sub,
             << Field("Leaf", "string", <<"leaf">>, "LEAF", req.Leaf,
                      val.Leaf, <<>>) >>),
       Field("Port", "int", <<"port">>, "", "", val.Port, <<>>) >>

NoValidateTags == [n \in {"Top", "Sub", "Leaf", "Port"} |-> <<>>]

ConfigType(req) == TaggedType(req, NoValidateTags)

\* var result T: the zero value
ZeroConfig == [Top |-> "", Sub |-> [Leaf |-> ""], Port |-> 0]

\* The environment: a variable is unset, or set to a string.
Unset == "<unset>"

EnvKeys == {"TOP", "LEAF"}

Environments == [EnvKeys -> {Unset, "", "e"}]

\* os.Getenv: the empty string for a variable that is not set
Getenv(env, k) == IF env[k] = Unset THEN "" ELSE env[k]

\* What the remote store and the config files hold for the keys of the type.
KeyTop == <<"top">>

KeyLeaf == <<"sub", "/", "leaf">>

KeyPort == <<"port">>

SsmMaps ==
    {m \in UNION {[S -> {"", "r", "8"}] : S \in SUBSET {KeyTop, KeyLeaf, KeyPort}} :
        \A k \in DOMAIN m : IF k = KeyPort THEN m[k] # "" ELSE m[k] # "8"}

FileMaps == UNION {[S -> {"", "f"}] : S \in SUBSET {KeyTop, KeyLeaf}}

\* loader.go lines 114-122: the remote values, overlaid with the file values
Merge(ssmValues, fileValues) ==
    [k \in DOMAIN ssmValues \cup DOMAIN fileValues |->
        IF k \in DOMAIN fileValues THEN fileValues[k] ELSE ssmValues[k]]

\* mapper.go lines 309-311
isRequiredField(requiredTag) == requiredTag \in {"true", "1", "yes"}

\* for key, value := range values: an order in which the keys come
Orders(S) ==
    {o \in [1..Cardinality(S) -> S] : \A i, j \in DOMAIN o : o[i] = o[j] => i = j}

\* mapper.go lines 324-336: the loop over the keys from the i-th of order on;
\* res is result as a set of key and value pairs, and a later pair replaces
\* an earlier one of the same key.
Put(res, key, value) == {e \in res : e[1] # key} \cup {<<key, value>>}

RECURSIVE filterFrom(_, _, _, _, _)
filterFrom(values, prefix, order, i, res) ==
    IF i > Len(order) THEN res
    ELSE LET key == order[i]
             prefixWithSlash == prefix \o <<"/">>
         IN filterFrom(values, prefix, order, i + 1,
               IF HasPrefix(key, prefixWithSlash)
               THEN Put(res, TrimPrefix(key, prefixWithSlash), values[key])
               ELSE IF key = prefix
               THEN Put(res, <<>>, values[key])
               ELSE res)

AsMap(res) ==
    [k \in {e[1] : e \in res} |-> (CHOOSE e \in res : e[1] = k)[2]]

\* mapper.go lines 316-337, the keys visited in the given order
filterInOrder(values, prefix, order) ==
    IF prefix = <<>> THEN values
    ELSE AsMap(filterFrom(values, prefix, order, 1, {}))

\* The same where the order does not matter to the caller.
filterValuesByPrefix(values, prefix) ==
    filterInOrder(values, prefix, CHOOSE o \in Orders(DOMAIN values) : TRUE)

\* The decimal numerals given to fields of a fixed width.  Num(s, k, d) is
\* the numeral of s * 2^k + d, for s and d in -1..1 and k a power at which a
\* width ends; Num(0, 0, d) is the numeral of d.  NotANumber is a string
\* that is no numeral.
Num(s, k, d) == [s |-> s, k |-> k, d |-> d]

Powers == {7, 8, 15, 16, 31, 32, 63, 64}

Numerals ==
    {Num(0, 0, d) : d \in -1..1}
    \cup {Num(s, k, d) : s \in {-1, 1}, k \in Powers, d \in -1..1}

NotANumber == [s |-> 0, k |-> 1, d |-> 0]

\* a <= b: the powers are far enough apart for d not to matter between them
AtMost(a, b) ==
    \/ a.s * a.k < b.s * b.k
    \/ a.s * a.k = b.s * b.k /\ a.d <= b.d

FixedKinds ==
    {"int8", "int16", "int32", "int64", "uint8", "uint16", "uint32", "uint64"}

Signed(kind) == kind \in {"int8", "int16", "int32", "int64"}

Width(kind) ==
    CASE kind \in {"int8", "uint8"} -> 8
      [] kind \in {"int16", "uint16"} -> 16
      [] kind \in {"int32", "uint32"} -> 32
      [] kind \in {"int64", "uint64"} -> 64

MaxInt(w) == Num(1, w - 1, -1)

MinInt(w) == Num(-1, w - 1, 0)

MaxUint(w) == Num(1, w, -1)

\* strconv.ParseInt(val, 10, 64) and strconv.ParseUint(val, 10, 64)
ParseInt(val) ==
    val \in Numerals /\ AtMost(MinInt(64), val) /\ AtMost(val, MaxInt(64))

ParseUint(val) ==
    val \in Numerals /\ AtMost(Num(0, 0, 0), val) /\ AtMost(val, MaxUint(64))

\* fv.SetInt(x), fv.SetUint(x): the field takes the low w bits of x
SetInt(w, x) ==
    IF AtMost(MinInt(w), x) /\ AtMost(x, MaxInt(w)) THEN x
    ELSE IF x.k = w - 1
    THEN (IF x.s = 1 THEN Num(-1, w - 1, x.d) ELSE MaxInt(w))
    ELSE Num(0, 0, x.d)

SetUint(w, x) ==
    IF AtMost(x, MaxUint(w)) THEN x
    ELSE IF x.d = -1 THEN MaxUint(w)
    ELSE Num(0, 0, x.d)

\* mapper.go lines 356-369: the bounds of int8, int16 and int32
OutOfRange(kind, intVal) ==
    /\ kind \in {"int8", "int16", "int32"}
    /\ ~(AtMost(MinInt(Width(kind)), intVal)
         /\ AtMost(intVal, MaxInt(Width(kind))))

\* mapper.go lines 350-377
setFixedWidth(kind, val) ==
    IF Signed(kind)
    THEN IF ~ParseInt(val) \/ OutOfRange(kind, val)
         THEN [ok |-> FALSE, v |-> Num(0, 0, 0)]
         ELSE [ok |-> TRUE, v |-> SetInt(Width(kind), val)]
    ELSE IF ~ParseUint(val)
         THEN [ok |-> FALSE, v |-> Num(0, 0, 0)]
         ELSE [ok |-> TRUE, v |-> SetUint(Width(kind), val)]

\* mapper.go lines 339-413, for a string, an int and a fixed-width field;
\* v is what the field holds afterwards
setFieldValue(kind, val) ==
    IF kind = "string" THEN [ok |-> TRUE, v |-> val]
    ELSE IF kind \in FixedKinds THEN setFixedWidth(kind, val)
    ELSE IF val \in DOMAIN Parsed THEN [ok |-> TRUE, v |-> Parsed[val]]
    ELSE [ok |-> FALSE, v |-> 0]

\* strings.ToLower(field.Name) for the fields of the type
ToLower(name) ==
    CASE name = "Top" -> "top"
      [] name = "Sub" -> "sub"
      [] name = "Leaf" -> "leaf"
      [] name = "Port" -> "port"

\* What a pass carries from field to field: the record, missingRequired,
\* the registry of the package, and as history the logger's calls (logs),
\* the fields recorded as missing by this pass or a nested one (met), the
\* validators invoked (ran) and the fields the loops have come to (walk).
Pass(rec, reg) ==
    [rec |-> rec, missing |-> <<>>, logs |-> <<>>, met |-> <<>>, reg |-> reg,
     ran |-> <<>>, walk |-> <<>>]

\* line 24: the loop comes to the field
Visit(acc, f) == [acc EXCEPT !.walk = Append(@, f.name)]

\* lines 134-137 and 190-195: the field is appended to missingRequired and,
\* with a logger, a warning is logged.
Unlogged(logs, name, logger) == logs

Logged(logs, name, logger) == IF logger THEN Append(logs, name) ELSE logs

\* missingRequired = append(missingRequired, missingInfo)
RecordFirst(missingRequired, name) == <<name>> \o missingRequired

Record(missingRequired, name) == Append(missingRequired, name)

Missing(acc, f, logger) ==
    [acc EXCEPT !.missing = Record(@, f.name),
                !.met = Append(@, f.name),
                !.logs = Logged(@, f.name, logger)]

\* lines 168-173: a non-empty environment value is taken first
EnvNeverWins(envTag, envVal) == FALSE

EnvWins(envTag, envVal) == envTag # "" /\ envVal # ""

\* lines 239-244: the pass ends in panic
NeverAborts(missingRequired, strict) == FALSE

Aborts(missingRequired, strict) == missingRequired # <<>> /\ strict

\* What a pass ends in; listed is what the panic message lists.
Outcome(kind, acc, err) ==
    [kind |-> kind, rec |-> acc.rec, logs |-> acc.logs, met |-> acc.met,
     err |-> err, listed |-> acc.missing, reg |-> acc.reg, ran |-> acc.ran,
     walk |-> acc.walk]

\* lines 152-157 and 231-236: the validate tag of a field that has been set
Validated(acc, f) ==
    IF f.validate = <<>> THEN [acc |-> acc, err |-> "nil"]
    ELSE LET reg == ensureBuiltinValidators(acc.reg)
             c == validateField(Value(f.kind, acc.rec[f.name]), f.validate,
                                f.name, reg, acc.ran)
         IN [acc |-> [acc EXCEPT !.reg = reg, !.ran = c.ran], err |-> c.err]

\* lines 130-144: a required nested struct with no value is not entered
EntersAlways(required, nestedValues) == FALSE

SkipsNested(required, nestedValues) ==
    isRequiredField(required) /\ DOMAIN nestedValues = {}

\* lines 208-236: an error of the conversion or of a validator is returned
GoesOn(err) == FALSE

Fails(err) == err # "nil"

\* mapper.go lines 12-250, with useStrongTyping set and no json tags: the
\* pass over fields from the i-th on.
RECURSIVE mapFrom(_, _, _, _, _, _, _)
mapFrom(values, env, fields, i, come, strict, logger) ==
    IF i > Len(fields)
    THEN IF Aborts(come.missing, strict)
         THEN Outcome("panic", come, "ssmconfig: Missing required fields")
         ELSE Outcome("nil", come, "")
    ELSE
    LET f == fields[i]
        acc == Visit(come, f)
    IN
    IF f.kind = "struct"
    THEN \* lines 106-157
         LET prefix == IF f.ssm # <<>> THEN f.ssm ELSE <<ToLower(f.name)>>
             nestedValues == filterValuesByPrefix(values, prefix)
         IN IF SkipsNested(f.required, nestedValues)
            THEN mapFrom(values, env, fields, i + 1, Missing(acc, f, logger),
                         strict, logger)
            ELSE LET r == mapFrom(nestedValues, env, f.fields, 1,
                                  [acc EXCEPT !.rec = acc.rec[f.name],
                                              !.missing = <<>>],
                                  strict, logger)
                     after == [acc EXCEPT !.rec[f.name] = r.rec,
                                          !.logs = r.logs, !.met = r.met,
                                          !.reg = r.reg, !.ran = r.ran,
                                          !.walk = r.walk]
                     v == Validated(after, f)
                 IN CASE r.kind = "nil" ->
                           IF Fails(v.err)
                           THEN Outcome("err", v.acc, v.err)
                           ELSE mapFrom(values, env, fields, i + 1, v.acc,
                                        strict, logger)
                      [] r.kind = "panic" ->
                           Outcome("panic", [after EXCEPT !.missing = r.listed],
                                   r.err)
                      [] r.kind = "err" ->
                           Outcome("err", after, "mapping nested struct field")
    ELSE \* lines 160-236
    IF f.ssm = <<>> /\ f.env = ""
    THEN mapFrom(values, env, fields, i + 1, acc, strict, logger)
    ELSE
    LET envVal == IF f.env # "" THEN Getenv(env, f.env) ELSE ""
        fromEnv == EnvWins(f.env, envVal)
        fromMap == /\ ~fromEnv
                   /\ f.ssm # <<>>
                   /\ f.ssm \in DOMAIN values
                   /\ values[f.ssm] # ""
        val == IF fromEnv THEN envVal ELSE values[f.ssm]
    IN IF ~(fromEnv \/ fromMap)
       THEN mapFrom(values, env, fields, i + 1,
                    IF isRequiredField(f.required)
                    THEN Missing(acc, f, logger) ELSE acc,
                    strict, logger)
       ELSE LET s == setFieldValue(f.kind, val)
                v == Validated([acc EXCEPT !.rec[f.name] = s.v], f)
                set == IF s.ok THEN "nil" ELSE "setting field"
            IN IF Fails(set)
               THEN Outcome("err", acc, set)
               ELSE IF Fails(v.err)
               THEN Outcome("err", v.acc, v.err)
               ELSE mapFrom(values, env, fields, i + 1, v.acc, strict, logger)

\* mapToStruct(values, &result, strict, logger, true) on a zero Config, the
\* package's registry being reg
mapToStruct(values, env, type, strict, logger, reg) ==
    mapFrom(values, env, type, 1, Pass(ZeroConfig, reg), strict, logger)

\* A load whose fetch and file read have returned: ssm and file are their
\* maps; env is the environment, type the destination type, strict and
\* logger the loader's options.
Loads ==
    [stage : {"loaded"}, env : Environments, ssm : SsmMaps, file : FileMaps,
     req : [{"Top", "Sub", "Leaf"} -> RequiredTags],
     strict : BOOLEAN, logger : BOOLEAN]

\* loader.go lines 112-122
MergeValues ==
    /\ mapper.stage = "loaded"
    /\ mapper' = [stage |-> "merged", env |-> mapper.env, ssm |-> mapper.ssm,
                  file |-> mapper.file, req |-> mapper.req,
                  strict |-> mapper.strict, logger |-> mapper.logger,
                  merged |-> Merge(mapper.ssm, mapper.file)]
    /\ UNCHANGED <<lvars, built, config, onChange, recs, phase, newConfig,
                   oldConfig, hasChanged, notified, refreshed, svars, avars,
                   rvars>>

\* loader.go lines 124-129: the mapping pass and what the load ends in
MapValues ==
    /\ mapper.stage = "merged"
    /\ mapper' = [stage |-> "done", env |-> mapper.env, ssm |-> mapper.ssm,
                  file |-> mapper.file, req |-> mapper.req,
                  strict |-> mapper.strict, logger |-> mapper.logger,
                  merged |-> mapper.merged,
                  out |-> mapToStruct(mapper.merged, mapper.env,
                                      ConfigType(mapper.req), mapper.strict,
                                      mapper.logger, NoValidators)]
    /\ UNCHANGED <<lvars, built, config, onChange, recs, phase, newConfig,
                   oldConfig, hasChanged, notified, refreshed, svars, avars,
                   rvars>>

InitMapper == Fresh /\ NoValidation /\ mapper \in Loads

NextMapper == MergeValues \/ MapValues

SpecMapper == InitMapper /\ [][NextMapper]_vars

\* ------------------------------------------------------------------------
\* A mapping pass over a type with validate tags
\* ------------------------------------------------------------------------
\* The validators the caller has registered before the pass:
\*   RegisterValidator("v1", ...), RegisterValidator("test", ...),
\*   RegisterParameterizedValidator("same", ...)
Registered ==
    Registry((<<"v1">> :> "v1") @@ (<<"test">> :> "test"),
             (<<"same">> :> "same"), FALSE)

\* The validate tags the fields of the type are given.
TagTest == <<"test">>

TagBoth == <<"v1", ",", " ", "test">>

TagFirst == <<"test", ",", "v1">>

TagUnknown == <<"v1", ",", "unknown">>

TagSame == <<"same", ":", "r">>

TagMin == <<"min", ":", "2">>

TagV1 == <<"v1">>

ValidateTags ==
    [Top : {<<>>, TagTest, TagBoth, TagFirst, TagUnknown, TagSame},
     Sub : {<<>>, TagV1},
     Leaf : {<<>>, TagTest},
     Port : {<<>>, TagMin}]

\* The value maps of the passes that are followed.
ValueMaps ==
    {m \in UNION {[S -> {"r", "f", "8"}] : S \in SUBSET {KeyTop, KeyLeaf, KeyPort}} :
        \A k \in DOMAIN m : IF k = KeyPort THEN m[k] \in {"8", "r"}
                                           ELSE m[k] \in {"r", "f"}}

\* A call mapToStruct(values, &result, strict, logger, true) that has not
\* yet run: merged is its values argument.
Passes ==
    [stage : {"tagged"}, env : [EnvKeys -> {Unset, "e"}], merged : ValueMaps,
     req : [{"Top", "Sub", "Leaf"} -> RequiredTags], val : ValidateTags,
     strict : BOOLEAN, logger : BOOLEAN, reg : {Registered}]

\* mapper.go lines 12-250: the call runs
MapTagged ==
    /\ mapper.stage = "tagged"
    /\ mapper' = [stage |-> "done", env |-> mapper.env,
                  merged |-> mapper.merged, req |-> mapper.req,
                  val |-> mapper.val, strict |-> mapper.strict,
                  logger |-> mapper.logger, reg |-> mapper.reg,
                  out |-> mapToStruct(mapper.merged, mapper.env,
                                      TaggedType(mapper.req, mapper.val),
                                      mapper.strict, mapper.logger,
                                      mapper.reg)]
    /\ UNCHANGED <<lvars, built, config, onChange, recs, phase, newConfig,
                   oldConfig, hasChanged, notified, refreshed, svars, avars,
                   rvars>>

InitPass == Fresh /\ NoValidation /\ mapper \in Passes

NextPass == MapTagged

SpecPass == InitPass /\ [][NextPass]_vars

\* ------------------------------------------------------------------------
\* validateField on its own
\* ------------------------------------------------------------------------
\* The validate tags: every string of at most MaxTag pieces out of two
\* names, a parameter, and the separators.
MaxTag == 4

TagPieces == {"t", "u", "x", ":", ",", " "}

Tags == UNION {[1..n -> TagPieces] : n \in 0..MaxTag}

\* The registries: each name is or is not registered as a plain validator
\* returning nil, and as a parameterized one comparing value and params.
Registries ==
    {Registry([k \in P |-> "v1"], [k \in Q |-> "same"], FALSE) :
        P \in SUBSET {<<"t">>, <<"u">>}, Q \in SUBSET {<<"t">>, <<"u">>}}

\* A call validateField(fv, tag, "F") for a string field holding "x".
Validations ==
    [stage : {"tag"}, tag : Tags, reg : Registries,
     value : {Value("string", "x")}, field : {"F"}]

\* part_000 lines 73-132: the call runs
ValidateTag ==
    /\ mapper.stage = "tag"
    /\ mapper' = [stage |-> "checked", tag |-> mapper.tag, reg |-> mapper.reg,
                  value |-> mapper.value, field |-> mapper.field,
                  out |-> validateField(mapper.value, mapper.tag,
                                        mapper.field, mapper.reg, <<>>)]
    /\ UNCHANGED <<lvars, built, config, onChange, recs, phase, newConfig,
                   oldConfig, hasChanged, notified, refreshed, svars, avars,
                   rvars>>

InitValidate == Fresh /\ NoValidation /\ mapper \in Validations

NextValidate == ValidateTag

SpecValidate == InitValidate /\ [][NextValidate]_vars

\* ------------------------------------------------------------------------
\* filterValuesByPrefix on its own
\* ------------------------------------------------------------------------
\* The keys and prefixes: every string of at most MaxKey pieces out of two
\* names and the separator; the maps hold at most two of the keys.
MaxKey == 3

KeyPieces == {"p", "q", "/"}

KeyStrings == UNION {[1..n -> KeyPieces] : n \in 0..MaxKey}

FilterMaps ==
    UNION {[S -> {"v", "w"}] :
              S \in {{}} \cup {{a, b} : a \in KeyStrings, b \in KeyStrings}}

Filterings ==
    [stage : {"filter"}, values : FilterMaps,
     prefix : {k \in KeyStrings : Len(k) < MaxKey}]

\* mapper.go lines 316-337: the call runs; range visits the keys of the
\* map in an order the runtime chooses
FilterValues ==
    /\ mapper.stage = "filter"
    /\ \E order \in Orders(DOMAIN mapper.values) :
          mapper' = [stage |-> "filtered", values |-> mapper.values,
                     prefix |-> mapper.prefix,
                     out |-> filterInOrder(mapper.values, mapper.prefix,
                                           order)]
    /\ UNCHANGED <<lvars, built, config, onChange, recs, phase, newConfig,
                   oldConfig, hasChanged, notified, refreshed, svars, avars,
                   rvars>>

InitFilter == Fresh /\ NoValidation /\ mapper \in Filterings

NextFilter == FilterValues

SpecFilter == InitFilter /\ [][NextFilter]_vars

\* ------------------------------------------------------------------------
\* setFieldValue on a field of fixed width
\* ------------------------------------------------------------------------
\* A call setFieldValue(fv, val) on a zero field of the kind.
Conversions ==
    [stage : {"convert"}, kind : FixedKinds,
     val : Numerals \cup {NotANumber}]

\* mapper.go lines 339-411: the call runs
ConvertValue ==
    /\ mapper.stage = "convert"
    /\ mapper' = [stage |-> "converted", kind |-> mapper.kind,
                  val |-> mapper.val,
                  out |-> setFieldValue(mapper.kind, mapper.val)]
    /\ UNCHANGED <<lvars, built, config, onChange, recs, phase, newConfig,
                   oldConfig, hasChanged, notified, refreshed, svars, avars,
                   rvars>>

InitConvert == Fresh /\ NoValidation /\ mapper \in Conversions

NextConvert == ConvertValue

SpecConvert == InitConvert /\ [][NextConvert]_vars

\* ------------------------------------------------------------------------
\* The validator registry under concurrent calls
\* ------------------------------------------------------------------------
\* everything outside the package's registry
pvars == <<lvars, built, config, onChange, recs, phase, newConfig, oldConfig,
           hasChanged, notified, refreshed, svars, avars, mapper>>

At(p, at) == vat[p].pc = at

Goto(p, at) == [vat EXCEPT ![p].pc = at]

StartCall == [vhist EXCEPT !.calls = @ + 1]

CanStart(p) == At(p, "idle") /\ vhist.calls < MaxCalls

InTable(reg, table, name) ==
    IF table = "plain" THEN name \in DOMAIN reg.validators
    ELSE name \in DOMAIN reg.parameterizedValidators

\* validators[name] = validator, parameterizedValidators[name] = validator
Stored(reg, table, name, fn) ==
    IF table = "plain"
    THEN [reg EXCEPT !.validators = (name :> fn) @@ @]
    ELSE [reg EXCEPT !.parameterizedValidators = (name :> fn) @@ @]

\* delete(m, name)
Kept(m, name) == m

Deleted(m, name) == [k \in DOMAIN m \ {name} |-> m[k]]

RUnlock(m, p) == [m EXCEPT !.r = @ \ {p}]

\* The calls of RegisterBuiltinValidators, in the order of part_000 lines
\* 148-255.
Builtins ==
    << [table |-> "plain", name |-> <<"email">>, fn |-> "email"],
       [table |-> "plain", name |-> <<"url">>, fn |-> "url"],
       [table |-> "parameterized", name |-> <<"minlen">>, fn |-> "minlen"],
       [table |-> "parameterized", name |-> <<"maxlen">>, fn |-> "maxlen"],
       [table |-> "parameterized", name |-> <<"min">>, fn |-> "min"],
       [table |-> "parameterized", name |-> <<"max">>, fn |-> "max"] >>

\* part_000 line 139: builtinValidatorsMu.Lock()
Unguarded(m) == TRUE

CanEnsure(m) == m = 0

EnsureLock(p) ==
    /\ CanStart(p)
    /\ CanEnsure(builtinValidatorsMu)
    /\ builtinValidatorsMu' = p
    /\ vat' = [vat EXCEPT ![p] = [AtRest EXCEPT !.pc = "ensure"]]
    /\ vhist' = StartCall
    /\ UNCHANGED <<pvars, registry, validatorsMu>>

\* lines 141-142: the flag is read; when it is set the call returns
EnsureCheck(p) ==
    /\ At(p, "ensure")
    /\ IF registry.builtinValidatorsRegistered
       THEN /\ vat' = Goto(p, "ensured")
            /\ builtinValidatorsMu' = IF builtinValidatorsMu = p THEN 0
                                      ELSE builtinValidatorsMu
       ELSE /\ vat' = [vat EXCEPT ![p].pc = "install", ![p].todo = Builtins]
            /\ UNCHANGED builtinValidatorsMu
    /\ UNCHANGED <<pvars, registry, validatorsMu, vhist>>

\* RegisterValidator, RegisterParameterizedValidator called by
\* RegisterBuiltinValidators: validatorsMu.Lock()
InstallLock(p) ==
    /\ At(p, "install")
    /\ CanLock(validatorsMu)
    /\ validatorsMu' = [validatorsMu EXCEPT !.w = p]
    /\ vat' = Goto(p, "installing")
    /\ UNCHANGED <<pvars, registry, builtinValidatorsMu, vhist>>

\* the assignment and the deferred Unlock
InstallStore(p) ==
    /\ At(p, "installing")
    /\ LET b == Head(vat[p].todo)
       IN registry' = Stored(registry, b.table, b.name, b.fn)
    /\ validatorsMu' = Unlock(validatorsMu, p)
    /\ vat' = [vat EXCEPT ![p].todo = Tail(@),
                          ![p].pc = IF Tail(vat[p].todo) = <<>>
                                    THEN "installed" ELSE "install"]
    /\ UNCHANGED <<pvars, builtinValidatorsMu, vhist>>

\* line 143 and the deferred Unlock of line 140
EnsureDone(p) ==
    /\ At(p, "installed")
    /\ registry' = [registry EXCEPT !.builtinValidatorsRegistered = TRUE]
    /\ vhist' = [vhist EXCEPT !.installs = @ + 1]
    /\ builtinValidatorsMu' = IF builtinValidatorsMu = p THEN 0
                              ELSE builtinValidatorsMu
    /\ vat' = Goto(p, "ensured")
    /\ UNCHANGED <<pvars, validatorsMu>>

\* validateField after ensureBuiltinValidators, for a spec that names a
\* builtin: GetValidator or GetParameterizedValidator takes the read lock
LookupRLock(p) ==
    /\ At(p, "ensured")
    /\ CanRLock(validatorsMu)
    /\ \E i \in 1..Len(Builtins) :
          vat' = [vat EXCEPT ![p].pc = "looking",
                             ![p].name = Builtins[i].name,
                             ![p].table = Builtins[i].table]
    /\ validatorsMu' = [validatorsMu EXCEPT !.r = @ \cup {p}]
    /\ UNCHANGED <<pvars, registry, builtinValidatorsMu, vhist>>

\* part_000 lines 53-54 and 61-62: the map is read, the lock released
GetRead(p) ==
    /\ At(p, "looking")
    /\ vat' = [vat EXCEPT ![p].pc = "idle",
                          ![p].found = InTable(registry, vat[p].table,
                                               vat[p].name)]
    /\ validatorsMu' = RUnlock(validatorsMu, p)
    /\ UNCHANGED <<pvars, registry, builtinValidatorsMu, vhist>>

InitBuiltin == Fresh /\ NoMapping

NextBuiltin ==
    \E p \in Procs :
        \/ EnsureLock(p)
        \/ EnsureCheck(p)
        \/ InstallLock(p)
        \/ InstallStore(p)
        \/ EnsureDone(p)
        \/ LookupRLock(p)
        \/ GetRead(p)

SpecBuiltin == InitBuiltin /\ [][NextBuiltin]_vars

\* The names the callers register, look up and unregister.  vhist.live is
\* history: the entries whose registration has returned and that no
\* UnregisterValidator has begun to remove since; vhist.gone is history:
\* the names whose UnregisterValidator has returned and that no
\* registration has begun to store since.
Names == {<<"a">>, <<"b">>}

Tables == {"plain", "parameterized"}

\* part_000 lines 28 and 36: validatorsMu.Lock()
RegisterCall(p, names) ==
    /\ CanStart(p)
    /\ CanLock(validatorsMu)
    /\ validatorsMu' = [validatorsMu EXCEPT !.w = p]
    /\ \E name \in names, table \in Tables :
          /\ vat' = [vat EXCEPT ![p] = [AtRest EXCEPT !.pc = "registering",
                                                      !.name = name,
                                                      !.table = table]]
          /\ vhist' = [StartCall EXCEPT !.gone = @ \ {name}]
    /\ UNCHANGED <<pvars, registry, builtinValidatorsMu>>

RegisterLock(p) == RegisterCall(p, Names)

\* lines 30 and 38, and the deferred Unlock
RegisterStore(p) ==
    /\ At(p, "registering")
    /\ registry' = Stored(registry, vat[p].table, vat[p].name, "v1")
    /\ validatorsMu' = Unlock(validatorsMu, p)
    /\ vat' = Goto(p, "idle")
    /\ vhist' = [vhist EXCEPT !.live = @ \cup {<<vat[p].table, vat[p].name>>}]
    /\ UNCHANGED <<pvars, builtinValidatorsMu>>

\* line 43
UnregisterCall(p, names) ==
    /\ CanStart(p)
    /\ CanLock(validatorsMu)
    /\ validatorsMu' = [validatorsMu EXCEPT !.w = p]
    /\ \E name \in names :
          /\ vat' = [vat EXCEPT ![p] = [AtRest EXCEPT !.pc = "unregistering",
                                                      !.name = name]]
          /\ vhist' = [StartCall EXCEPT
                          !.live = @ \ {<<table, name>> : table \in Tables}]
    /\ UNCHANGED <<pvars, registry, builtinValidatorsMu>>

UnregisterLock(p) == UnregisterCall(p, Names)

\* line 45
UnregisterPlain(p) ==
    /\ At(p, "unregistering")
    /\ registry' = [registry EXCEPT !.validators = Deleted(@, vat[p].name)]
    /\ vat' = Goto(p, "unregistered one")
    /\ UNCHANGED <<pvars, validatorsMu, builtinValidatorsMu, vhist>>

\* line 46 and the deferred Unlock
UnregisterParameterized(p) ==
    /\ At(p, "unregistered one")
    /\ registry' = [registry EXCEPT
                       !.parameterizedValidators = Deleted(@, vat[p].name)]
    /\ validatorsMu' = Unlock(validatorsMu, p)
    /\ vat' = Goto(p, "idle")
    /\ vhist' = [vhist EXCEPT !.gone = @ \cup {vat[p].name}]
    /\ UNCHANGED <<pvars, builtinValidatorsMu>>

\* lines 51 and 59: validatorsMu.RLock()
GetRLock(p) ==
    /\ CanStart(p)
    /\ CanRLock(validatorsMu)
    /\ validatorsMu' = [validatorsMu EXCEPT !.r = @ \cup {p}]
    /\ \E name \in Names, table \in Tables :
          vat' = [vat EXCEPT ![p] = [AtRest EXCEPT !.pc = "looking",
                                                   !.name = name,
                                                   !.table = table]]
    /\ vhist' = StartCall
    /\ UNCHANGED <<pvars, registry, builtinValidatorsMu>>

InitRegistry == Fresh /\ NoMapping

NextRegistry ==
    \E p \in Procs :
        \/ RegisterLock(p)
        \/ RegisterStore(p)
        \/ UnregisterLock(p)
        \/ UnregisterPlain(p)
        \/ UnregisterParameterized(p)
        \/ GetRLock(p)
        \/ GetRead(p)

SpecRegistry == InitRegistry /\ [][NextRegistry]_vars

\* ------------------------------------------------------------------------
\* The caller's validators under names of the builtins
\* ------------------------------------------------------------------------
\* Names of builtins that the program registers and unregisters itself.
UserNames == {<<"email">>, <<"min">>}

\* RegisterValidator(name, fn), RegisterParameterizedValidator(name, fn)
\* with the program's own function
UserRegister(p) == RegisterCall(p, UserNames)

\* UnregisterValidator(name)
UserUnregister(p) == UnregisterCall(p, UserNames)

\* part_000 lines 53 and 61: the function a lookup of the name returns
Resolved(reg, table, name) ==
    IF ~InTable(reg, table, name) THEN "none"
    ELSE IF table = "plain" THEN reg.validators[name]
    ELSE reg.parameterizedValidators[name]

InitUser == Fresh /\ NoMapping

NextUser ==
    \E p \in Procs :
        \/ UserRegister(p)
        \/ RegisterStore(p)
        \/ UserUnregister(p)
        \/ UnregisterPlain(p)
        \/ UnregisterParameterized(p)
        \/ EnsureLock(p)
        \/ EnsureCheck(p)
        \/ InstallLock(p)
        \/ InstallStore(p)
        \/ EnsureDone(p)
        \/ LookupRLock(p)
        \/ GetRead(p)

SpecUser == InitUser /\ [][NextUser]_vars

\* ------------------------------------------------------------------------
\* ValidateRequiredFields beside a mapping pass
\* ------------------------------------------------------------------------
KeySub == <<"sub">>

\* The type of the checks: that of the passes, and Port may be required.
CheckedType(req) ==
    [ConfigType(req) EXCEPT ![3].required = req.Port]

\* mapper.go lines 285-289: values[ssmTag] exists and is not empty
Exists(values, ssmTag) == ssmTag # <<>> /\ ssmTag \in DOMAIN values

InMap(values, ssmTag) ==
    ssmTag # <<>> /\ ssmTag \in DOMAIN values /\ values[ssmTag] # ""

\* lines 280-284: os.Getenv(envTag) is not empty
InEnv(env, envTag) == envTag # "" /\ Getenv(env, envTag) # ""

\* lines 269-300: the loop over the fields of T from the i-th on; result is
\* never written
RECURSIVE checkFrom(_, _, _, _, _, _)
checkFrom(values, env, fields, i, come, logger) ==
    IF i > Len(fields)
    THEN \* lines 302-306
         IF come.missing # <<>>
         THEN Outcome("err", come, "missing required fields")
         ELSE Outcome("nil", come, "nil")
    ELSE
    LET f == fields[i]
        acc == Visit(come, f)
        hasValue == InEnv(env, f.env) \/ InMap(values, f.ssm)
    IN IF ~isRequiredField(f.required) \/ hasValue
       THEN checkFrom(values, env, fields, i + 1, acc, logger)
       ELSE checkFrom(values, env, fields, i + 1, Missing(acc, f, logger),
                      logger)

\* mapper.go lines 255-307
ValidateRequiredFields(values, env, type, logger) ==
    checkFrom(values, env, type, 1, Pass(ZeroConfig, NoValidators), logger)

\* The value maps that are checked.
CheckedMaps ==
    {m \in UNION {[S -> {"", "r", "8"}] :
                     S \in SUBSET {KeyTop, KeySub, KeyLeaf, KeyPort}} :
        \A k \in DOMAIN m : IF k = KeyPort THEN m[k] # "r" ELSE m[k] # "8"}

\* A call ValidateRequiredFields[Config](values, logger) that has not yet
\* run, in a program that then maps the same values without strict mode.
Checks ==
    [stage : {"unchecked"}, env : Environments, merged : CheckedMaps,
     req : [{"Top", "Sub", "Leaf", "Port"} -> RequiredTags],
     logger : BOOLEAN]

ValidateRequired ==
    /\ mapper.stage = "unchecked"
    /\ mapper' = [stage |-> "checked", env |-> mapper.env,
                  merged |-> mapper.merged, req |-> mapper.req,
                  logger |-> mapper.logger,
                  check |-> ValidateRequiredFields(mapper.merged, mapper.env,
                                                   CheckedType(mapper.req),
                                                   mapper.logger)]
    /\ UNCHANGED <<lvars, built, config, onChange, recs, phase, newConfig,
                   oldConfig, hasChanged, notified, refreshed, svars, avars,
                   rvars>>

\* mapToStruct(values, &result, false, logger, true) on the same values
MapChecked ==
    /\ mapper.stage = "checked"
    /\ mapper' = [stage |-> "done", env |-> mapper.env,
                  merged |-> mapper.merged, req |-> mapper.req,
                  logger |-> mapper.logger, check |-> mapper.check,
                  out |-> mapToStruct(mapper.merged, mapper.env,
                                      CheckedType(mapper.req), FALSE,
                                      mapper.logger, NoValidators)]
    /\ UNCHANGED <<lvars, built, config, onChange, recs, phase, newConfig,
                   oldConfig, hasChanged, notified, refreshed, svars, avars,
                   rvars>>

InitCheck == Fresh /\ NoValidation /\ mapper \in Checks

NextCheck == ValidateRequired \/ MapChecked

SpecCheck == InitCheck /\ [][NextCheck]_vars

\* ------------------------------------------------------------------------
\* deepCopy on a record with nested records, pointers, slices and maps
\* ------------------------------------------------------------------------
\* type Inner struct { Value string; Tags []string }
\* type Config struct { Name string; Nested Inner; Ptr *Inner;
\*                      Values []string; Metadata map[string]string }
\* Values that refer to the heap hold an address, Nil for a nil pointer,
\* slice or map; a struct is the sequence of its fields.
StringOf(s) == [k |-> "string", s |-> s]

PtrTo(a) == [k |-> "ptr", ref |-> a]

SliceOf(a, n) == [k |-> "slice", ref |-> a, len |-> n]

MapAt(a) == [k |-> "map", ref |-> a]

StructOf(fields) == [k |-> "struct", f |-> fields]

\* Heap cells: the target of a pointer, the array of a slice, a map.
Addrs == 1..12

FreeCell == [k |-> "free"]

Obj(v) == [k |-> "obj", v |-> v]

Array(e) == [k |-> "array", e |-> e]

MapCell(m) == [k |-> "map", m |-> m]

Alloc(h) == Min({a \in Addrs : h[a].k = "free"})

\* reflect.New, reflect.MakeSlice, reflect.MakeMap: a new object
Same(h, src) == src

New(h, src) == Alloc(h)

\* part_002 lines 123-204.  h is the heap, v the source value; the result is
\* the heap after the copy and the value set into dst.
RECURSIVE copyValue(_, _)
RECURSIVE copyEach(_, _, _, _)
\* the elements of a struct or of a slice, from the i-th on
copyEach(h, vs, i, done) ==
    IF i > Len(vs) THEN [h |-> h, vs |-> done]
    ELSE LET r == copyValue(h, vs[i])
         IN copyEach(r.h, vs, i + 1, Append(done, r.v))

RECURSIVE copyKeys(_, _, _, _)
\* for _, key := range src.MapKeys()
copyKeys(h, m, todoKeys, done) ==
    IF todoKeys = {} THEN [h |-> h, m |-> done]
    ELSE LET key == CHOOSE x \in todoKeys : TRUE
             r == copyValue(h, m[key])
         IN copyKeys(r.h, m, todoKeys \ {key}, (key :> r.v) @@ done)

copyValue(h, v) ==
    CASE v.k = "string" -> [h |-> h, v |-> StringOf(v.s)]
      [] v.k = "ptr" ->
           IF v.ref = Nil THEN [h |-> h, v |-> PtrTo(Nil)]
           ELSE LET a == New(h, v.ref)
                    r == copyValue([h EXCEPT ![a] = Obj(StringOf(""))],
                                   h[v.ref].v)
                IN [h |-> [r.h EXCEPT ![a] = Obj(r.v)], v |-> PtrTo(a)]
      [] v.k = "struct" ->
           LET r == copyEach(h, v.f, 1, <<>>)
           IN [h |-> r.h, v |-> StructOf(r.vs)]
      [] v.k = "slice" ->
           IF v.ref = Nil THEN [h |-> h, v |-> SliceOf(Nil, 0)]
           ELSE LET a == New(h, v.ref)
                    r == copyEach([h EXCEPT ![a] = Array(<<>>)],
                                  SubSeq(h[v.ref].e, 1, v.len), 1, <<>>)
                    rest == [i \in 1..(Len(h[v.ref].e) - v.len) |->
                                StringOf("")]
                IN [h |-> [r.h EXCEPT ![a] = Array(r.vs \o rest)],
                    v |-> SliceOf(a, v.len)]
      [] v.k = "map" ->
           IF v.ref = Nil THEN [h |-> h, v |-> MapAt(Nil)]
           ELSE LET a == New(h, v.ref)
                    r == copyKeys([h EXCEPT ![a] = MapCell(<<>>)],
                                  h[v.ref].m, DOMAIN h[v.ref].m, <<>>)
                IN [h |-> [r.h EXCEPT ![a] = MapCell(r.m)], v |-> MapAt(a)]

\* part_002 lines 103-120: src is the address of the source record
deepCopy(h, src) ==
    IF src = Nil THEN [h |-> h, v |-> Nil]
    ELSE LET a == Alloc(h)
             r == copyValue([h EXCEPT ![a] = Obj(StringOf(""))], h[src].v)
         IN [h |-> [r.h EXCEPT ![a] = Obj(r.v)], v |-> a]

\* What a value is to reflect.DeepEqual: its contents, the heap followed.
RECURSIVE Deep(_, _)
Deep(h, v) ==
    CASE v.k = "string" -> v.s
      [] v.k = "ptr" ->
           IF v.ref = Nil THEN <<>> ELSE <<Deep(h, h[v.ref].v)>>
      [] v.k = "struct" -> [i \in 1..Len(v.f) |-> Deep(h, v.f[i])]
      [] v.k = "slice" ->
           [nil |-> v.ref = Nil,
            e |-> IF v.ref = Nil THEN <<>>
                  ELSE [i \in 1..v.len |-> Deep(h, h[v.ref].e[i])]]
      [] v.k = "map" ->
           [nil |-> v.ref = Nil,
            m |-> IF v.ref = Nil THEN <<>>
                  ELSE [key \in DOMAIN h[v.ref].m |->
                           Deep(h, h[v.ref].m[key])]]

DeepAt(h, a) == IF a = Nil THEN <<>> ELSE <<Deep(h, h[a].v)>>

\* The heap cells a value reaches.
RECURSIVE Reach(_, _)
Reach(h, v) ==
    CASE v.k = "string" -> {}
      [] v.k = "ptr" ->
           IF v.ref = Nil THEN {} ELSE {v.ref} \cup Reach(h, h[v.ref].v)
      [] v.k = "struct" -> UNION {Reach(h, v.f[i]) : i \in 1..Len(v.f)}
      [] v.k = "slice" ->
           IF v.ref = Nil THEN {}
           ELSE {v.ref} \cup UNION {Reach(h, h[v.ref].e[i]) :
                                       i \in 1..Len(h[v.ref].e)}
      [] v.k = "map" ->
           IF v.ref = Nil THEN {}
           ELSE {v.ref} \cup UNION {Reach(h, h[v.ref].m[key]) :
                                       key \in DOMAIN h[v.ref].m}

ReachAt(h, a) == IF a = Nil THEN {} ELSE Reach(h, PtrTo(a))

\* The values v can become by one assignment of "w" to a string in it, no
\* pointer followed.
RECURSIVE Writes(_)
Writes(v) ==
    CASE v.k = "string" -> {StringOf(CallerVal)} \ {v}
      [] v.k = "struct" ->
           UNION {{StructOf([v.f EXCEPT ![i] = w]) : w \in Writes(v.f[i])} :
                     i \in 1..Len(v.f)}
      [] OTHER -> {}

\* The cells the cell c can become by one assignment: to a field of the
\* struct, to an element of the array, to a key of the map, old or new.
CellWrites(c) ==
    CASE c.k = "obj" -> {Obj(w) : w \in Writes(c.v)}
      [] c.k = "array" ->
           UNION {{Array([c.e EXCEPT ![i] = w]) : w \in Writes(c.e[i])} :
                     i \in 1..Len(c.e)}
      [] c.k = "map" ->
           {MapCell((key :> StringOf(CallerVal)) @@ c.m) :
               key \in {"key", "new"}} \ {c}
      [] OTHER -> {}

\* The source records: the heap a program has built before it calls
\* deepCopy.  Ptr is nil or points to an Inner; a slice is nil, empty or has
\* elements; the Tags of the two Inner may share their array.
Strings == {"", "x"}

\* Assignments made after the copy, over the source and the copy.
MaxWrites == 2

SourceHeap(name, ptr, values, tags, ptags, meta) ==
    LET nestedTags == IF tags = "nil" THEN SliceOf(Nil, 0) ELSE SliceOf(4, 1)
        ptrTags == CASE ptags = "nil" -> SliceOf(Nil, 0)
                     [] ptags = "own" -> SliceOf(5, 1)
                     [] ptags = "shared" -> nestedTags
        root == StructOf(<<
                   StringOf(name),
                   StructOf(<<StringOf("x"), nestedTags>>),
                   IF ptr THEN PtrTo(2) ELSE PtrTo(Nil),
                   CASE values = "nil" -> SliceOf(Nil, 0)
                     [] values = "empty" -> SliceOf(3, 0)
                     [] values = "two" -> SliceOf(3, 2),
                   IF meta = "nil" THEN MapAt(Nil) ELSE MapAt(6) >>)
    IN [a \in Addrs |->
          CASE a = 1 -> Obj(root)
            [] a = 2 /\ ptr -> Obj(StructOf(<<StringOf("x"), ptrTags>>))
            [] a = 3 /\ values # "nil" ->
                 Array(<<StringOf("a"), StringOf("b")>>)
            [] a = 4 /\ tags # "nil" -> Array(<<StringOf("t")>>)
            [] a = 5 /\ ptr /\ ptags = "own" -> Array(<<StringOf("u")>>)
            [] a = 6 /\ meta # "nil" ->
                 MapCell(IF meta = "one" THEN ("key" :> StringOf("v"))
                         ELSE <<>>)
            [] OTHER -> FreeCell]

Sources ==
    {[stage |-> "source", heap |-> SourceHeap(name, ptr, values, tags, ptags,
                                              meta),
      src |-> 1, dst |-> Nil, srcWas |-> <<>>, dstWas |-> <<>>,
      writes |-> 0] :
        name \in Strings, ptr \in BOOLEAN, values \in {"nil", "empty", "two"},
        tags \in {"nil", "one"}, ptags \in {"nil", "own", "shared"},
        meta \in {"nil", "empty", "one"}}

\* copy, err := deepCopy(src); srcWas and dstWas are history: what the
\* source and the copy held after the last write made through each
DeepCopyRecord ==
    /\ mapper.stage = "source"
    /\ LET r == deepCopy(mapper.heap, mapper.src)
       IN mapper' = [mapper EXCEPT !.stage = "copied", !.heap = r.h,
                                   !.dst = r.v,
                                   !.srcWas = DeepAt(mapper.heap, mapper.src),
                                   !.dstWas = DeepAt(r.h, r.v)]
    /\ UNCHANGED <<lvars, built, config, onChange, recs, phase, newConfig,
                   oldConfig, hasChanged, notified, refreshed, svars, avars,
                   rvars>>

\* an assignment through the pointer root: to a field, an element or a key
\* of anything it reaches
Assign(root, was) ==
    /\ mapper.stage = "copied"
    /\ mapper.writes < MaxWrites
    /\ \E a \in ReachAt(mapper.heap, mapper[root]) :
         \E c \in CellWrites(mapper.heap[a]) :
            LET h == [mapper.heap EXCEPT ![a] = c]
            IN mapper' = [mapper EXCEPT !.heap = h, !.writes = @ + 1,
                                        ![was] =
                                            DeepAt(h, mapper[root])]
    /\ UNCHANGED <<lvars, built, config, onChange, recs, phase, newConfig,
                   oldConfig, hasChanged, notified, refreshed, svars, avars,
                   rvars>>

MutateCopy == Assign("dst", "dstWas")

MutateSource == Assign("src", "srcWas")

InitCopy == Fresh /\ NoValidation /\ mapper \in Sources

NextCopy == DeepCopyRecord \/ MutateCopy \/ MutateSource

SpecCopy == InitCopy /\ [][NextCopy]_vars

\* ------------------------------------------------------------------------
\* The file-based configuration of the README and of the example program
\* ------------------------------------------------------------------------
\* part_007 lines 198-208: type FileConfig, its Database record
KeyDbUrl == <<"database", "/", "url">>

KeyDbPort == <<"database", "/", "port">>

FileConfigType ==
    << Field("Database", "struct", <<"database">>, "", "", <<>>,
             << Field("URL", "string", KeyDbUrl, "DB_URL", "", <<>>, <<>>),
                Field("Port", "int", KeyDbPort, "DB_PORT", "", <<>>, <<>>) >>) >>

ZeroFileConfig == [Database |-> [URL |-> "", Port |-> 0]]

\* What the store and the files hold under database/, and the environment.
FileLoads ==
    [stage : {"read"},
     env : [{"DB_URL", "DB_PORT"} -> {Unset, "8"}],
     ssm : {m \in UNION {[S -> {"", "r", "8"}] : S \in SUBSET {KeyDbUrl, KeyDbPort}} :
               \A k \in DOMAIN m : k = KeyDbPort => m[k] = "8"},
     file : {m \in UNION {[S -> {"", "f", "2"}] : S \in SUBSET {KeyDbUrl, KeyDbPort}} :
               \A k \in DOMAIN m : k = KeyDbPort => m[k] = "2"}]

\* loader.go lines 112-122
MergeFile ==
    /\ mapper.stage = "read"
    /\ mapper' = [stage |-> "merged", env |-> mapper.env, ssm |-> mapper.ssm,
                  file |-> mapper.file,
                  merged |-> Merge(mapper.ssm, mapper.file)]
    /\ UNCHANGED <<lvars, built, config, onChange, recs, phase, newConfig,
                   oldConfig, hasChanged, notified, refreshed, svars, avars,
                   rvars>>

\* loader.go lines 124-129: mapToStruct(merged, &result, false, nil, true)
MapFile ==
    /\ mapper.stage = "merged"
    /\ mapper' = [stage |-> "done", env |-> mapper.env, ssm |-> mapper.ssm,
                  file |-> mapper.file, merged |-> mapper.merged,
                  out |-> mapFrom(mapper.merged, mapper.env, FileConfigType, 1,
                                  Pass(ZeroFileConfig, NoValidators), FALSE,
                                  FALSE)]
    /\ UNCHANGED <<lvars, built, config, onChange, recs, phase, newConfig,
                   oldConfig, hasChanged, notified, refreshed, svars, avars,
                   rvars>>

InitFile == Fresh /\ NoValidation /\ mapper \in FileLoads

NextFile == MergeFile \/ MapFile

SpecFile == InitFile /\ [][NextFile]_vars

\* ------------------------------------------------------------------------
\* The loader over a store whose every fetch succeeds
\* ------------------------------------------------------------------------
\* loadFromSSM returns a map and no error
ResolveFetched(p) == ResolveFetchDone(p) /\ ret'[p].kind = "map"

NextSucceeds ==
    \E p \in Procs :
        \/ \E k \in Prefixes : LoadByPrefix(p, k)
        \/ \E k \in Prefixes \cup {AllPrefixes} : InvalidateCacheAll(p, k)
        \/ \E k \in Prefixes \cup {AllPrefixes} : InvalidateCacheOne(p, k)
        \/ ResolveCreate(p)
        \/ ResolveLoad(p)
        \/ ResolveOnce(p)
        \/ ResolveFetched(p)
        \/ ResolveAfter(p)
        \/ InvalidateNone(p)
        \/ RangeNext(p)
        \/ InvalidateNil(p)
        \/ InvalidateStore(p)

SpecSucceeds == Init /\ [][NextSucceeds]_vars

\* ------------------------------------------------------------------------
\* ViperRemoteProvider: a provider over a loader of its own
\* ------------------------------------------------------------------------
\* The provider's path, and the parameters the store can hold under it, by
\* the names loadFromSSM gives them (loader.go lines 312-316).
ProviderPath == <<"/", "myapp", "/">>

ParamNames == {<<"url">>, <<"database", "/", "url">>}

StoreContents == UNION {[S -> {"v1", "v2"}] : S \in SUBSET ParamNames}

\* The keys Viper asks for.
ViperKeys == {<<"url">>, <<"database", ".", "url">>}

\* strings.ReplaceAll
ReplaceAll(s, old, new) ==
    [i \in 1..Len(s) |-> IF s[i] = old THEN new ELSE s[i]]

\* viper.go lines 101-108
convertKeyToSSMPath(key, path) ==
    ReplaceAll(TrimPrefix(TrimPrefix(key, path), <<"/">>), ".", "/")

\* The snapshot of the provider's path in its loader's cache.
NotCached == [nil |-> TRUE, c |-> <<>>]

Cached(c) == [nil |-> FALSE, c |-> c]

\* loader.go lines 230-297, called by one goroutine at a time: a snapshot is
\* returned as it is; without one the store is fetched, o being what the
\* fetch returns, and on success its map becomes the snapshot.
loadByPrefix(snapshot, o) ==
    IF ~snapshot.nil
    THEN [ok |-> TRUE, val |-> snapshot.c, snapshot |-> snapshot,
          fetched |-> FALSE]
    ELSE IF o.ok
    THEN [ok |-> TRUE, val |-> o.val, snapshot |-> Cached(o.val),
          fetched |-> TRUE]
    ELSE [ok |-> FALSE, val |-> <<>>, snapshot |-> snapshot,
          fetched |-> TRUE]

\* What GetParametersByPath returns when the store holds c.
StoreFetches(c) == {[ok |-> TRUE, val |-> c], [ok |-> FALSE, val |-> <<>>]}

NoValue == [key |-> <<>>, val |-> "", ok |-> FALSE]

\* A program that has not yet made its provider.  stale and last are
\* history: the store has changed since the last refresh returned, and the
\* last operation.
Providers ==
    [stage : {"none"}, store : StoreContents, snapshot : {NotCached},
     values : {<<>>}, stale : {FALSE}, last : {"none"}, got : {NoValue},
     all : {<<>>}]

\* viper.go lines 112-147: NewViperRemoteProvider and its initial load
NewViperRemoteProvider ==
    /\ mapper.stage = "none"
    /\ \E o \in StoreFetches(mapper.store) :
         LET r == loadByPrefix(mapper.snapshot, o)
         IN mapper' = [mapper EXCEPT
                          !.stage = IF r.ok THEN "watching" ELSE "failed",
                          !.snapshot = r.snapshot,
                          !.values = IF r.ok THEN r.val ELSE @,
                          !.last = "new"]
    /\ UNCHANGED <<lvars, built, config, onChange, recs, phase, newConfig,
                   oldConfig, hasChanged, notified, refreshed, svars, avars,
                   rvars>>

\* somebody changes the parameters under the path
StoreChanges ==
    /\ mapper.stage = "watching"
    /\ \E c \in StoreContents \ {mapper.store} :
         mapper' = [mapper EXCEPT !.store = c, !.stale = TRUE,
                                  !.last = "change"]
    /\ UNCHANGED <<lvars, built, config, onChange, recs, phase, newConfig,
                   oldConfig, hasChanged, notified, refreshed, svars, avars,
                   rvars>>

\* viper.go lines 76-80 and 86-97: a tick of the watch runs refresh; an
\* error ends the watch
WatchTick ==
    /\ mapper.stage = "watching"
    /\ \E o \in StoreFetches(mapper.store) :
         LET r == loadByPrefix(mapper.snapshot, o)
         IN mapper' = [mapper EXCEPT
                          !.stage = IF r.ok THEN "watching" ELSE "failed",
                          !.snapshot = r.snapshot,
                          !.values = IF r.ok THEN r.val ELSE @,
                          !.stale = IF r.ok THEN FALSE ELSE @,
                          !.last = "tick"]
    /\ UNCHANGED <<lvars, built, config, onChange, recs, phase, newConfig,
                   oldConfig, hasChanged, notified, refreshed, svars, avars,
                   rvars>>

\* viper.go lines 46-58
GetValue ==
    /\ mapper.stage = "watching"
    /\ \E key \in ViperKeys :
         LET ssmKey == convertKeyToSSMPath(key, ProviderPath)
             ok == ssmKey \in DOMAIN mapper.values
         IN mapper' = [mapper EXCEPT
                          !.got = [key |-> key,
                                   val |-> IF ok THEN mapper.values[ssmKey]
                                           ELSE "",
                                   ok |-> ok],
                          !.last = "get"]
    /\ UNCHANGED <<lvars, built, config, onChange, recs, phase, newConfig,
                   oldConfig, hasChanged, notified, refreshed, svars, avars,
                   rvars>>

\* viper.go lines 203-216
GetViperValues ==
    /\ mapper.stage = "watching"
    /\ mapper' = [mapper EXCEPT
                     !.all = {<<ReplaceAll(key, "/", "."), mapper.values[key]>> :
                                 key \in DOMAIN mapper.values},
                     !.last = "all"]
    /\ UNCHANGED <<lvars, built, config, onChange, recs, phase, newConfig,
                   oldConfig, hasChanged, notified, refreshed, svars, avars,
                   rvars>>

InitViper == Fresh /\ NoValidation /\ mapper \in Providers

NextViper ==
    NewViperRemoteProvider \/ StoreChanges \/ WatchTick \/ GetValue
        \/ GetViperValues

SpecViper == InitViper /\ [][NextViper]_vars

\* ------------------------------------------------------------------------
\* Refresh cycles that fail: the background goroutine and manual calls
\* ------------------------------------------------------------------------
\* part_002 lines 212-215, loader.go lines 124-129: loadByPrefix has
\* returned a map, and the mapping pass returns an error of a conversion or
\* of a validator: Refresh returns it.
RefreshFails(p) ==
    /\ UNCHANGED mvars
    /\ UNCHANGED <<svars, avars>>
    /\ phase[p] = "load"
    /\ pc[p] = "idle"
    /\ ret[p].kind = "map"
    /\ phase' = [phase EXCEPT ![p] = "none"]
    /\ refreshed' = [refreshed EXCEPT ![p] = "err"]
    /\ Commit(cache, Forget(entries, p), maps, ent, result,
              [ret EXCEPT ![p] = NoRet])
    /\ UNCHANGED <<pc, op, arg, cur, todo, seen, attempt, calls>>
    /\ UNCHANGED <<built, config, onChange, recs, newConfig, oldConfig,
                   hasChanged, notified>>

\* rc.Refresh() called by a goroutine of the program
ManualRefresh(p) == p # Loop /\ RefreshStart(p)

\* A handle with its background goroutine, and goroutines of the program
\* that call Refresh.
InitTicks ==
    Started /\ NoneHeld /\ NoMapping
        /\ \E c \in FetchResults, cb \in BOOLEAN : Built(c, cb)

NextTicks ==
    \/ Tick
    \/ LoopTick
    \/ \E p \in Procs :
        \/ ManualRefresh(p)
        \/ RefreshLoad(p)
        \/ RefreshLoaded(p)
        \/ RefreshFails(p)
        \/ RefreshSwap(p)
        \/ RefreshNotify(p)
        \/ ResolveLoad(p)
        \/ ResolveOnce(p)
        \/ ResolveFetchDone(p)
        \/ ResolveAfter(p)
        \/ InvalidateNil(p)
        \/ InvalidateStore(p)

SpecTicks == InitTicks /\ [][NextTicks]_vars

\* ------------------------------------------------------------------------
\* Stop from every calling context
\* ------------------------------------------------------------------------
\* part_002 lines 224-226: the callback that Refresh runs calls rc.Stop()
\* (lines 232-233): rc.cancel(), then rc.wg.Wait()
CallbackStop(p) ==
    /\ UNCHANGED mvars
    /\ UNCHANGED avars
    /\ phase[p] = "notify"
    /\ onChange /\ hasChanged[p]
    /\ cancelled' = TRUE
    /\ phase' = [phase EXCEPT ![p] = "callback"]
    /\ UNCHANGED <<lvars, built, config, onChange, recs, newConfig,
                   oldConfig, hasChanged, notified, refreshed>>
    /\ UNCHANGED <<wg, loop, tick, stopped>>

\* line 234 inside the callback: rc.wg.Wait() returns when the counter is
\* zero; the callback and Refresh return
CallbackStopReturn(p) ==
    /\ UNCHANGED mvars
    /\ UNCHANGED avars
    /\ phase[p] = "callback"
    /\ Waited
    /\ stopped' = TRUE
    /\ notified' = [notified EXCEPT ![p] =
                       Notified(recs[oldConfig[p]].c, recs[newConfig[p]].c)]
    /\ CommitRc(config, recs, [newConfig EXCEPT ![p] = Nil],
                [oldConfig EXCEPT ![p] = Nil])
    /\ hasChanged' = [hasChanged EXCEPT ![p] = FALSE]
    /\ refreshed' = [refreshed EXCEPT ![p] = "nil"]
    /\ phase' = [phase EXCEPT ![p] = "none"]
    /\ UNCHANGED <<lvars, built, onChange>>
    /\ UNCHANGED <<cancelled, wg, loop, tick>>

\* The steps that continue what goroutine p is doing.
Proceed(p) ==
    \/ StopReturn(p)
    \/ CallbackStopReturn(p)
    \/ RefreshLoad(p)
    \/ RefreshLoaded(p)
    \/ RefreshSwap(p)
    \/ RefreshNotify(p)
    \/ CallbackStop(p)
    \/ ResolveLoad(p)
    \/ ResolveOnce(p)
    \/ ResolveFetchDone(p)
    \/ ResolveAfter(p)
    \/ InvalidateNil(p)
    \/ InvalidateStore(p)

\* A handle with its background goroutine, and goroutines of the program
\* that call Refresh and Stop; the callback may call Stop.
NextHalt ==
    \/ Tick
    \/ LoopTick
    \/ LoopExit
    \/ \E p \in Procs :
        \/ ManualRefresh(p)
        \/ StopCancel(p)
        \/ Proceed(p)

\* The Go scheduler runs every goroutine that can run, every fetch
\* terminates, and a select whose Done case is ready takes it once no tick
\* is left.
SpecHalt ==
    /\ InitTicks
    /\ [][NextHalt]_vars
    /\ \A p \in Procs : WF_vars(Proceed(p))
    /\ WF_vars(LoopExit)

\* ------------------------------------------------------------------------
\* Vocabulary of the properties
\* ------------------------------------------------------------------------
\* Goroutine p takes the step.
Moves(p) == pc'[p] # pc[p] \/ todo'[p] # todo[p]

\* The step is the return of p's call.
Returns(p) == pc[p] # "idle" /\ pc'[p] = "idle"

\* The step belongs to a call of the operation name by p.
InCall(p, name) == Moves(p) /\ (op[p] = name \/ op'[p] = name)

\* The snapshot the cache holds for prefix k; an absent entry counts as nil.
NilSnapshot == [nil |-> TRUE, c |-> <<>>]

Snapshot(k) ==
    IF cache[k] = NoEntry \/ entries[cache[k]].values = Nil
    THEN NilSnapshot
    ELSE [nil |-> FALSE, c |-> maps[entries[cache[k]].values].c]

\* What p's last call returned, by content.
Returned(p) ==
    IF ret[p].kind = "map"
    THEN [kind |-> "map", c |-> maps[ret[p].ref].c, err |-> ""]
    ELSE [kind |-> ret[p].kind, c |-> <<>>, err |-> ret[p].err]

ReturnedMap(c) == [kind |-> "map", c |-> c, err |-> ""]

ReturnedErr(e) == [kind |-> "err", c |-> <<>>, err |-> e]

\* The entry stands for its prefix untouched by InvalidateCache.
Untouched(e) == e.origin = "lazy" /\ ~e.nilled

\* A caller blocked in once.Do has a runner that will let it go.
NoWaiterStuck ==
    \A p \in Procs :
        pc[p] = "wait" =>
            \/ entries[ent[p]].once = "done"
            \/ /\ entries[ent[p]].once = "running"
               /\ \E q \in Procs : pc[q] = "fetching" /\ ent[q] = ent[p]

OneFetchPerGate == \A i \in EntryIds : entries[i].fetches <= 1

\* ------------------------------------------------------------------------
\* C1
\* ------------------------------------------------------------------------
\* The resolvers of a prefix whose entry no invalidate has touched all work
\* on that one entry.
Coalesced ==
    \A p \in Procs :
        (op[p] = "resolve" /\ pc[p] \in {"load", "once", "fetching", "wait"}
            /\ cache[arg[p]] # NoEntry /\ Untouched(entries[cache[arg[p]]]))
        => ent[p] = cache[arg[p]]

\* A resolve that returns from an untouched entry returns after exactly one
\* fetch was made for it, and with what that fetch produced.
ReturnsTheOneFetch ==
    \A p \in Procs :
        (Returns(p) /\ op[p] = "resolve" /\ Untouched(entries[ent[p]])) =>
            LET e == entries'[ent[p]] IN
            /\ e.fetches = 1
            /\ e.fetched.kind = "ok" => Returned(p)' = ReturnedMap(e.fetched.val)
            /\ e.fetched.kind = "err" => Returned(p)'.kind = "err"

\* C1: for a prefix with no entry and no concurrent invalidate, any number of
\* concurrent resolve(prefix, true) calls all work on one entry, whose gate
\* runs exactly one fetch; no caller stays blocked; and when that fetch
\* succeeds every caller returns a map equal to what it fetched.
C1_SingleFlight ==
    /\ [](Coalesced /\ OneFetchPerGate /\ NoWaiterStuck)
    /\ [][ReturnsTheOneFetch]_vars

\* One caller has returned the map of the fetch it ran while the other,
\* which joined that fetch in flight, is past the gate of the same entry.
C1_Witness ==
    \E p \in Procs, q \in Procs :
        /\ p # q
        /\ calls = 2
        /\ pc[p] = "idle" /\ attempt[p] = "own" /\ ret[p].kind = "map"
        /\ pc[q] = "wait" /\ attempt[q] = "joined"
        /\ ent[q] = cache[arg[q]]
        /\ Untouched(entries[ent[q]])
        /\ entries[ent[q]].fetches = 1
        /\ entries[ent[q]].fetched.kind = "ok"

\* ------------------------------------------------------------------------
\* C2
\* ------------------------------------------------------------------------
\* C2: a resolve(prefix, true) that reads a non-nil snapshot from the entry
\* returns at once a map equal to that snapshot, and no fetch is started.
C2_HitReturnsSnapshot ==
    [][\A p \in Procs :
          (Moves(p) /\ pc[p] = "load" /\ entries[ent[p]].values # Nil) =>
              /\ pc'[p] = "idle"
              /\ Returned(p)' = ReturnedMap(maps[entries[ent[p]].values].c)
              /\ attempt'[p] = "hit"
              /\ \A i \in EntryIds : entries'[i].fetches <= entries[i].fetches
              /\ \A q \in Procs : pc'[q] = "fetching" => pc[q] = "fetching"]_vars

\* A call has returned a map on the hit path while the snapshot is cached.
C2_Witness ==
    \E p \in Procs :
        /\ pc[p] = "idle" /\ attempt[p] = "hit"
        /\ Returned(p) \in {ReturnedMap(r) : r \in FetchResults}
        /\ \E k \in Prefixes : Snapshot(k) = [nil |-> FALSE, c |-> Returned(p).c]

\* ------------------------------------------------------------------------
\* C3
\* ------------------------------------------------------------------------
\* No map a caller holds is the map of a snapshot, the map another caller
\* holds, or a map a call still works on.
NoAlias ==
    \A p \in Procs :
        ret[p].kind = "map" =>
            /\ \A i \in EntryIds : entries[i].values # ret[p].ref
            /\ \A q \in Procs : result[q] # ret[p].ref
            /\ \A q \in Procs \ {p} : ret[q].ref # ret[p].ref

\* A caller's write reaches no snapshot and no map of another caller.
MutationIsLocal ==
    \A p \in Procs :
        MutateReturned(p) =>
            /\ \A k \in Prefixes : Snapshot(k)' = Snapshot(k)
            /\ \A q \in Procs \ {p} : Returned(q)' = Returned(q)

\* No call hands out what a caller wrote.
ReturnsOnlyFetched ==
    \A p \in Procs :
        (Returns(p) /\ ret'[p].kind = "map") => Returned(p)'.c \in FetchResults

\* C3: every map resolve returns (hit, runner, waiter, useCache = false) is a
\* copy of its own: a caller writing into the map it was handed changes no
\* snapshot and no map any other or later call returns.
C3_DefensiveCopies ==
    /\ [](NoAlias /\ \A k \in Prefixes : Snapshot(k).c \in FetchResults)
    /\ [][MutationIsLocal /\ ReturnsOnlyFetched]_vars

\* A caller has written into its map; the snapshot is cached and a call
\* served from the snapshot has returned what was fetched.
C3_Witness ==
    \E p \in Procs, q \in Procs :
        /\ ret[p].kind = "map" /\ Returned(p).c = Mutated(Returned(p).c)
        /\ ~Snapshot(<<"a">>).nil
        /\ q # p /\ pc[q] = "idle" /\ attempt[q] = "hit"
        /\ Returned(q) = ReturnedMap(Snapshot(<<"a">>).c)

\* ------------------------------------------------------------------------
\* C4
\* ------------------------------------------------------------------------
\* InvalidateCache first sets the old entry's snapshot to nil ...
InvalidateNilsSnapshot ==
    \A p \in Procs :
        (Moves(p) /\ pc[p] = "inv_nil") => entries'[ent[p]].values = Nil

\* ... and then puts an entry with a nil snapshot and an unused gate in the
\* table, for the same prefix.
InvalidateStoresFreshEntry ==
    \A p \in Procs :
        (Moves(p) /\ pc[p] = "inv_store") =>
            LET new == cache'[cur[p]] IN
            /\ new # NoEntry
            /\ entries[new] = FreeEntry
            /\ entries'[new].values = Nil
            /\ entries'[new].once = "new"
            /\ entries'[new].fetches = 0

\* A resolve that finds the gate unused runs the fetch itself.
UnusedGateFetches ==
    \A p \in Procs :
        (Moves(p) /\ pc[p] = "once" /\ entries[ent[p]].once = "new") =>
            /\ pc'[p] = "fetching"
            /\ entries'[ent[p]].fetches = 1

\* A resolve that returns from an entry InvalidateCache stored returns after
\* exactly one fetch made for that entry.
ReturnsAfterFreshFetch ==
    \A p \in Procs :
        (Returns(p) /\ op[p] = "resolve"
            /\ entries[ent[p]].origin = "invalidate") =>
                /\ entries[ent[p]].fetches = 1
                /\ entries[ent[p]].once \in {"running", "done"}

SameEntry(k) ==
    /\ cache'[k] = cache[k]
    /\ cache[k] # NoEntry => entries'[cache[k]] = entries[cache[k]]

\* C5: InvalidateCache(p) with p # "" changes the entry of p only: the
\* snapshot and gate of every other prefix stay as they are, and when p has
\* no entry nothing changes: no entry is created and nothing is returned.
C5_InvalidateOneOnly ==
    [][\A p \in Procs :
          \A k \in Prefixes :
          (InCall(p, "invalidate")
              /\ k = IF op[p] = "invalidate" THEN arg[p] ELSE arg'[p]) =>
              /\ \A j \in Prefixes \ {k} : SameEntry(j)
              /\ ent[p] = NoEntry => SameEntry(k) /\ ret'[p] = NoRet]_vars

\* InvalidateCache("/a/") has set the snapshot of "/a/" to nil and is about
\* to replace its entry, while "/a/b/" holds its snapshot.
C5_Witness ==
    \E p \in Procs :
        /\ op[p] = "invalidate" /\ arg[p] = <<"a">> /\ pc[p] = "inv_store"
        /\ entries[ent[p]].nilled
        /\ cache[<<"a", "b">>] # NoEntry
        /\ Untouched(entries[cache[<<"a", "b">>]])
        /\ ~Snapshot(<<"a", "b">>).nil

\* ------------------------------------------------------------------------
\* C6
\* ------------------------------------------------------------------------
\* The caller that ran the fetch returns its error when it failed.
RunnerReturnsFetchError ==
    \A p \in Procs :
        (Moves(p) /\ pc[p] = "fetching") =>
            /\ pc'[p] = "idle"
            /\ \/ Returned(p)' \in {ReturnedMap(r) : r \in FetchResults}
               \/ Returned(p)' = ReturnedErr(ErrFetch)
            /\ \A q \in Procs \ {p} :
                 ent[q] = ent[p] =>
                    (entries'[ent[p]].fetched.kind = "err"
                        <=> Returned(p)'.kind = "err")

\* A caller that waited on the gate of a failed fetch returns the failure,
\* without a fetch of its own.
WaiterReturnsFailure ==
    \A p \in Procs :
        (Moves(p) /\ pc[p] = "wait"
            /\ entries[ent[p]].fetched.kind = "err") =>
                /\ pc'[p] = "idle"
                /\ Returned(p)' = ReturnedErr(ErrFailedToLoad)
                /\ \A i \in EntryIds : entries'[i].fetches <= entries[i].fetches

\* C6: when the single-flight fetch of a prefix fails, the caller that ran it
\* returns the fetch error and every caller that waited on the same gate
\* returns "failed to load parameters for prefix"; the entry holds no
\* snapshot, so no caller gets a map; no caller stays blocked or retries.
C6_FailedFetch ==
    /\ [](NoWaiterStuck
            /\ \A i \in EntryIds :
                 entries[i].fetched.kind = "err" => entries[i].values = Nil)
    /\ [][RunnerReturnsFetchError /\ WaiterReturnsFailure]_vars

\* The runner has returned the fetch error and the caller that joined its
\* fetch has returned the failure.
C6_Witness ==
    \E p \in Procs, q \in Procs :
        /\ p # q /\ calls = 2
        /\ pc[p] = "idle" /\ attempt[p] = "own"
        /\ Returned(p) = ReturnedErr(ErrFetch)
        /\ pc[q] = "idle" /\ attempt[q] = "joined"
        /\ Returned(q) = ReturnedErr(ErrFailedToLoad)

\* ------------------------------------------------------------------------
\* C7
\* ------------------------------------------------------------------------
\* C7: a failed fetch stores nothing: every step of a resolve, with useCache
\* true or false, other than a return with a map leaves the snapshot of
\* every prefix (nil when there is no entry) as it was; so a call that
\* returns an error has changed no snapshot.
C7_FailureKeepsSnapshots ==
    [][\A p \in Procs :
          (Moves(p) /\ ~(Returns(p) /\ ret'[p].kind = "map")) =>
              \A k \in Prefixes : Snapshot(k)' = Snapshot(k)]_vars

\* A resolve has returned the fetch error and a snapshot is still cached.
C7_Witness ==
    \E p \in Procs :
        /\ pc[p] = "idle" /\ Returned(p) = ReturnedErr(ErrFetch)
        /\ \E k \in Prefixes : ~Snapshot(k).nil

\* ------------------------------------------------------------------------
\* C8
\* ------------------------------------------------------------------------
\* C8: every resolve(prefix, true) that finds the snapshot nil attempts a
\* fetch before it returns, its own or the one in flight that it joins, also
\* when an earlier fetch for the prefix failed and nothing was invalidated.
C8_NilSnapshotRetries ==
    [][\A p \in Procs :
          (Returns(p) /\ op[p] = "resolve" /\ seen[p] # "none") =>
              attempt'[p] \in {"own", "joined"}]_vars

\* ------------------------------------------------------------------------
\* C9
\* ------------------------------------------------------------------------
\* A call with useCache = false goes to the remote store whatever is cached,
\* and returns what it fetched.
BypassFetches ==
    \A p \in Procs :
        /\ (Moves(p) /\ op'[p] = "bypass" /\ op[p] # "bypass") =>
              pc'[p] = "bfetch"
        /\ (Returns(p) /\ op[p] = "bypass") =>
              /\ pc[p] \in {"bfetch", "bstore"}
              /\ pc[p] = "bstore" =>
                    Returned(p)' = ReturnedMap(maps[result[p]].c)
              /\ pc[p] = "bfetch" => Returned(p)' = ReturnedErr(ErrFetch)

\* It never changes the table, overwrites the snapshot of its prefix when
\* the prefix has an entry, and touches no other prefix.
BypassWritesBack ==
    \A p \in Procs, k \in Prefixes :
        (InCall(p, "bypass")
            /\ k = IF op[p] = "bypass" THEN arg[p] ELSE arg'[p]) =>
            /\ cache' = cache
            /\ \A j \in Prefixes \ {k} : SameEntry(j)
            /\ (Returns(p) /\ ret'[p].kind = "map" /\ ent[p] # NoEntry) =>
                  Snapshot(k)' = [nil |-> FALSE, c |-> maps[result[p]].c]
            /\ ~(Returns(p) /\ ret'[p].kind = "map" /\ ent[p] # NoEntry) =>
                  SameEntry(k)

\* C9: resolve(prefix, false) always fetches, even with a snapshot cached; on
\* success it overwrites the snapshot of prefix only if the prefix has an
\* entry, it never creates an entry, and it leaves other prefixes untouched.
C9_BypassOverwrites ==
    [][BypassFetches /\ BypassWritesBack]_vars

\* A call with useCache = false has overwritten the snapshot the gate's own
\* fetch had stored, with a different map.
C9_Witness ==
    \E k \in Prefixes :
        /\ cache[k] # NoEntry
        /\ entries[cache[k]].bypassed
        /\ entries[cache[k]].fetched.kind = "ok"
        /\ ~Snapshot(k).nil
        /\ Snapshot(k).c # entries[cache[k]].fetched.val
        /\ \E p \in Procs : pc[p] = "idle" /\ Returned(p) = ReturnedMap(Snapshot(k).c)

\* ------------------------------------------------------------------------
\* C10
\* ------------------------------------------------------------------------
\* The swap installs the record the cycle loaded; from then on Get returns
\* it.  The old record is the one Get returned until then.
SwapInstallsNew ==
    \A p \in Procs :
        (phase[p] = "swap" /\ phase'[p] # "swap") =>
            /\ Get' = newConfig[p]
            /\ oldConfig'[p] = Get
            /\ recs'[Get'] = recs[newConfig[p]]
            /\ recs'[oldConfig'[p]] = recs[Get]

\* The cycle ends with one onChange call, on (old, new), when the records
\* differ and the callback is set, and with none when they are deep-equal.
NotifiesOnceIffChanged ==
    \A p \in Procs :
        (phase[p] = "notify" /\ phase'[p] # "notify") =>
            LET old == recs[oldConfig[p]].c
                new == recs[newConfig[p]].c
            IN /\ refreshed'[p] = "nil"
               /\ (onChange /\ old # new) => notified'[p] = Notified(old, new)
               /\ old = new => notified'[p].n = 0

\* A cycle whose load failed leaves the record and calls nothing.
NoNotifyBeforeSwap ==
    \A p \in Procs : phase[p] # "none" => notified[p].n = 0

\* C10: a refresh that succeeds with a record different from the exposed one
\* makes Get return the new record and calls onChange exactly once, with
\* (old, new), old being the record exposed until new was installed; when the
\* reloaded record is deep-equal to the exposed one, onChange is not called.
C10_RefreshNotifies ==
    /\ []NoNotifyBeforeSwap
    /\ [][SwapInstallsNew /\ NotifiesOnceIffChanged]_vars

\* One refresh has installed a different record and called onChange with
\* (old, new); another has reloaded an equal record and called nothing.
C10_Witness ==
    \E p \in Procs, q \in Procs :
        /\ onChange
        /\ phase[p] = "none" /\ refreshed[p] = "nil"
        /\ notified[p].n = 1 /\ notified[p].old # notified[p].new
        /\ recs[Get].c = notified[p].new
        /\ phase[q] = "none" /\ refreshed[q] = "nil"
        /\ notified[q].n = 0

\* ------------------------------------------------------------------------
\* C11
\* ------------------------------------------------------------------------
\* C11: when a refresh cycle reloads a record deep-equal to the exposed one,
\* no swap happens: Get returns the same record instance after the cycle's
\* swap step as before it.
C11_EqualReloadKeepsInstance ==
    [][\A p \in Procs :
          (phase[p] = "swap" /\ phase'[p] # "swap"
              /\ recs[newConfig[p]].c = recs[Get].c) => Get' = Get]_vars

\* C12: every refresh cycle forces a true re-fetch.  The map its load returns
\* comes from the one fetch of an entry that was put into the table, its gate
\* unused, no earlier than the cycle's own InvalidateCache stored its entry,
\* or from the cycle's own fetch; the record the cycle builds and installs is
\* mapped from that map.  This holds with other cycles, loads and
\* invalidations running on the same loader.
C12_SinceIsBirth ==
    \A i \in EntryIds :
        ~(entries'[i].since \subseteq entries[i].since) =>
            /\ entries'[i].fetches = 0
            /\ entries'[i].once = "new"
            /\ entries'[i].values = Nil

C12_LoadIsFresh(p) ==
    (Returns(p) /\ phase[p] = "load" /\ ret'[p].kind = "map") =>
        /\ ent[p] # NoEntry
        /\ p \in entries[ent[p]].since
        /\ entries[ent[p]].fetches = 1
        /\ attempt'[p] \in {"hit", "own", "joined"}
        /\ attempt'[p] # "own" =>
              /\ entries[ent[p]].fetched.kind = "ok"
              /\ Returned(p)'.c = entries[ent[p]].fetched.val

C12_RecordFromLoad(p) ==
    /\ (phase[p] = "load" /\ phase'[p] = "swap") =>
          recs'[newConfig'[p]].c = MapToStruct(Returned(p).c)
    /\ (phase[p] = "swap" /\ phase'[p] = "notify") => config' = newConfig[p]

C12_RefreshRefetches ==
    [][/\ C12_SinceIsBirth
       /\ \A p \in Procs : C12_LoadIsFresh(p) /\ C12_RecordFromLoad(p)]_vars

C12_Witness ==
    \E p \in Procs :
        /\ phase[p] = "load"
        /\ pc[p] = "idle"
        /\ ret[p].kind = "map"
        /\ attempt[p] \in {"hit", "joined"}
        /\ \E q \in Procs \ {p} : phase[q] # "none" \/ op[q] = "resolve"

\* C13: Stop returns only after the background goroutine has exited; an
\* exited goroutine never runs again; and once a Stop has returned the
\* background goroutine starts no refresh, no load and no fetch.
C13_StopIsFinal ==
    [][/\ \A p \in Procs :
             (phase[p] = "wait" /\ phase'[p] = "none") => loop = "exited"
       /\ loop = "exited" => loop' = "exited"
       /\ stopped =>
             /\ loop = "exited"
             /\ stopped'
             /\ ~Moves(Loop)
             /\ phase'[Loop] = "none" /\ pc'[Loop] = "idle"
             /\ attempt'[Loop] = attempt[Loop]]_vars

C13_Witness ==
    /\ stopped
    /\ loop = "exited"
    /\ refreshed[Loop] # "none"
    /\ tick

\* What the other callers see of a write by p: the record Get and GetCopy
\* read, and the records the others hold.
InvisibleWrite(p) ==
    /\ recs'[config].c = recs[config].c
    /\ \A q \in Procs \ {p} :
          got[q] # Nil => recs'[got[q]].c = recs[got[q]].c

\* C14: no accessor hands out a mutable alias of the exposed record: a write
\* through a pointer obtained from Get or GetCopy is not visible to any other
\* caller of Get or GetCopy.
C14_NoAccessorAliases ==
    [][\A p \in Procs : Modify(p) => InvisibleWrite(p)]_vars

\* C14, amended: GetCopy hands out a record of its own, so a write through it
\* is visible to no other caller; Get hands out the exposed record itself.
C14_OnlyCopyIsPrivate ==
    [][\A p \in Procs :
          /\ (Modify(p) /\ via[p] = "copy") => InvisibleWrite(p)
          /\ GetCall(p) => got'[p] = config
          /\ GetCopyCall(p) =>
                /\ got'[p] # config
                /\ recs'[got'[p]].c = recs[config].c]_vars

C14_Witness ==
    \E p \in Procs : \E q \in Procs \ {p} :
        /\ via[p] = "copy"
        /\ recs[got[p]].c.Value = CallerVal
        /\ got[q] # Nil
        /\ recs[got[q]].c.Value # CallerVal
        /\ recs[config].c.Value # CallerVal

\* Goroutine p takes the step of Refresh that assigns rc.config.
Stores(p) == phase[p] = "locked" /\ phase'[p] = "call"

\* C15: concurrent refresh cycles are last-write-wins.  The exposed record
\* changes only in the store of a cycle that holds the lock alone, and becomes
\* the record that cycle loaded; the record the cycle read as old is the one
\* it replaces.  So the record exposed when the cycles have completed is that
\* of the cycle that stored last.
C15_LastWriteWins ==
    [][/\ config' # config => \E p \in Procs : Stores(p)
       /\ \A p \in Procs :
             Stores(p) =>
                /\ mu.w = p /\ mu.r = {}
                /\ oldConfig[p] = config
                /\ config' = newConfig[p]
                /\ recs'[config'] = recs[newConfig[p]]
                /\ \A q \in Procs \ {p} : phase[q] # "locked"]_vars

C15_Witness ==
    \E p \in Procs : \E q \in Procs \ {p} :
        /\ phase[p] = "call"
        /\ phase[q] = "call"
        /\ config = newConfig[p]
        /\ oldConfig[p] = newConfig[q]
        /\ recs[newConfig[q]].c # recs[config].c

\* C16: the on-change callback runs in the goroutine that performed the
\* refresh, inside its Refresh call and after that goroutine has released the
\* lock; a callback that calls Get gets the read lock and returns.
C16_CallbackAfterUnlock ==
    /\ [][\A p \in Procs :
             /\ notified'[p].n > notified[p].n =>
                   /\ phase[p] = "call" /\ phase'[p] = "callback"
                   /\ mu.w # p /\ p \notin mu.r
             /\ phase[p] \in {"callback", "reading"} =>
                   /\ refreshed[p] = "none"
                   /\ mu.w # p
             /\ (phase[p] = "callback" /\ phase'[p] = "reading") =>
                   got'[p] = config]_vars
    /\ \A p \in Procs : (phase[p] = "callback") ~> (phase[p] = "none")

C16_Witness ==
    \E p \in Procs : \E q \in Procs \ {p} :
        /\ phase[p] = "reading"
        /\ phase[q] = "swap"
        /\ notified[p].n = 1
        /\ got[p] = config

\* The fetches made on the entries of the table.
RECURSIVE SumFetches(_)
SumFetches(S) ==
    IF S = {} THEN 0
    ELSE LET i == CHOOSE j \in S : TRUE
         IN entries[i].fetches + SumFetches(S \ {i})

\* C17: the constructor makes exactly one load, and it has returned before
\* the background goroutine and its ticker exist.  When the load fails the
\* constructor returns the error and no handle, and neither goroutine nor
\* ticker is ever started.
C17_OneLoadThenLoop ==
    [][/\ built \in {"no", "loading"} => loop = "none" /\ ~tick /\ wg = 0
       /\ \A p \in Procs :
             /\ (phase[p] = "construct" /\ pc[p] = "idle") => pc'[p] = "idle"
             /\ (phase[p] = "construct" /\ phase'[p] = "none") =>
                   /\ calls = 1
                   /\ SumFetches(EntryIds) = 1
                   /\ IF ret[p].kind = "map"
                      THEN /\ built' = "yes" /\ config' # Nil
                           /\ loop' = "run" /\ wg' = 1 /\ ~tick'
                      ELSE /\ built' = "failed" /\ config' = Nil
                           /\ loop' = "none" /\ wg' = 0 /\ ~tick'
       /\ built = "failed" =>
             /\ built' = "failed" /\ config' = Nil
             /\ loop' = "none" /\ wg' = 0 /\ ~tick'
             /\ \A p \in Procs : phase'[p] = "none" /\ pc'[p] = "idle"]_vars

C17_WitnessStarted ==
    /\ built = "yes"
    /\ loop = "run"
    /\ refreshed[Loop] = "nil"
    /\ attempt[1] = "own"

C17_Witness ==
    /\ built = "failed"
    /\ loop = "none"
    /\ attempt[1] = "own"

\* ------------------------------------------------------------------------
\* The mapping pass: environment, merged map, required fields
\* ------------------------------------------------------------------------
Mapped == mapper.stage = "done"

EnvSet(k) == Getenv(mapper.env, k) # ""

Recorded(name) ==
    \E j \in 1..Len(mapper.out.met) : mapper.out.met[j] = name

\* The pass over Config does not descend into Sub: Sub is required and the
\* merged map holds no key under "sub".
SubSkipped ==
    /\ isRequiredField(mapper.req.Sub)
    /\ ~\E k \in DOMAIN mapper.merged :
          k = <<"sub">> \/ HasPrefix(k, <<"sub", "/">>)

\* The field of the record takes the environment value when that is
\* non-empty, and otherwise the value the merged map holds under key.
EnvThenMap(field, envKey, key) ==
    IF EnvSet(envKey) THEN field = mapper.env[envKey]
    ELSE key \in DOMAIN mapper.merged => field = mapper.merged[key]

\* C18 as stated: every field with an env key and a remote key, at any
\* depth, receives the environment value when the variable is set and
\* non-empty, and the value map's value when it is unset or empty.
C18_EnvWinsAtAnyDepth ==
    Mapped =>
        /\ EnvThenMap(mapper.out.rec.Top, "TOP", KeyTop)
        /\ EnvThenMap(mapper.out.rec.Sub.Leaf, "LEAF", KeyLeaf)

\* C18 amended: the rule holds for every field the pass reaches; a required
\* nested record with no key under its prefix is recorded as missing and
\* not descended into, and its fields keep their zero value whatever the
\* environment holds.
C18_EnvWinsWhereReached ==
    Mapped =>
        /\ EnvThenMap(mapper.out.rec.Top, "TOP", KeyTop)
        /\ IF SubSkipped
           THEN mapper.out.rec.Sub = ZeroConfig.Sub /\ Recorded("Sub")
           ELSE EnvThenMap(mapper.out.rec.Sub.Leaf, "LEAF", KeyLeaf)

C18_Witness ==
    /\ Mapped
    /\ mapper.env["LEAF"] = "e"
    /\ KeyLeaf \in DOMAIN mapper.merged
    /\ mapper.merged[KeyLeaf] = "f"
    /\ mapper.out.rec.Sub.Leaf = "e"
    /\ mapper.env["TOP"] = ""
    /\ mapper.out.rec.Top = "r"

\* The value of the highest of the three sources that holds a non-empty
\* value for the field, and the empty string when none does.
Has(m, key) == key \in DOMAIN m /\ m[key] # ""

ByPriority(envKey, key) ==
    IF EnvSet(envKey) THEN mapper.env[envKey]
    ELSE IF Has(mapper.file, key) THEN mapper.file[key]
    ELSE IF Has(mapper.ssm, key) THEN mapper.ssm[key]
    ELSE ""

PortFails ==
    /\ Has(mapper.merged, KeyPort)
    /\ mapper.merged[KeyPort] \notin DOMAIN Parsed

\* C20 as stated: a strict pass that meets a required field with no
\* resolved value ends in the fatal abort, with or without a logger.
C20_StrictMissingAlwaysAborts ==
    Mapped /\ mapper.strict /\ mapper.out.met # <<>> =>
        mapper.out.kind = "panic"

\* C20 amended: a strict pass that has recorded a missing required field
\* never returns success, with or without a logger; it ends in the fatal
\* abort when it reaches its end, and in an ordinary error when a later
\* field of the same pass fails to convert first.  A nested pass reaches
\* its own end, and aborts, before the fields after it are converted.
C20_StrictAbortsAtEndOfPass ==
    Mapped /\ mapper.strict /\ mapper.out.met # <<>> =>
        IF PortFails /\ ~Recorded("Leaf")
        THEN mapper.out.kind = "err"
        ELSE mapper.out.kind = "panic"

C20_Witness ==
    /\ Mapped
    /\ mapper.strict
    /\ ~mapper.logger
    /\ Recorded("Top")
    /\ ~PortFails
    /\ mapper.out.kind = "panic"

\* ------------------------------------------------------------------------
\* The mapping pass: diagnostics, errors and validators
\* ------------------------------------------------------------------------
\* The fields in the order a pass and its nested pass come to them.
Declared == <<"Top", "Sub", "Leaf", "Port">>

Place(name) == CHOOSE i \in 1..Len(Declared) : Declared[i] = name

InWalk(name) == \E j \in 1..Len(mapper.out.walk) : mapper.out.walk[j] = name

InLogs(name) == \E j \in 1..Len(mapper.out.logs) : mapper.out.logs[j] = name

HasRun(name) ==
    \E j \in 1..Len(mapper.out.ran) : mapper.out.ran[j].field = name

\* The field is tagged required and neither the environment nor the value
\* map resolves it; for Sub: no key of the map lies under "sub".
IsRequired(name) == isRequiredField(mapper.req[name])

Unresolved(name) ==
    CASE name = "Top" -> ~EnvSet("TOP") /\ ~Has(mapper.merged, KeyTop)
      [] name = "Leaf" -> ~EnvSet("LEAF") /\ ~Has(mapper.merged, KeyLeaf)
      [] name = "Sub" -> ~\E k \in DOMAIN mapper.merged :
                             k = <<"sub">> \/ HasPrefix(k, <<"sub", "/">>)
      [] name = "Port" -> ~Has(mapper.merged, KeyPort)

IsMissing(name) ==
    name \in {"Top", "Sub", "Leaf"} /\ IsRequired(name) /\ Unresolved(name)

AtZero(name) ==
    CASE name = "Top" -> mapper.out.rec.Top = ZeroConfig.Top
      [] name = "Sub" -> mapper.out.rec.Sub = ZeroConfig.Sub
      [] name = "Leaf" -> mapper.out.rec.Sub.Leaf = ZeroConfig.Sub.Leaf
      [] name = "Port" -> mapper.out.rec.Port = ZeroConfig.Port

\* No field of the type can fail: none has a validate tag and the value for
\* Port, if there is one, is a numeral.
NothingFails ==
    /\ \A n \in DOMAIN mapper.val : mapper.val[n] = <<>>
    /\ ~PortFails

\* C21 as stated: without strict mode and with a logger, a pass in which
\* required fields have no resolved value returns success, leaves them at
\* zero, and the logger is called exactly once for each of them, in
\* declaration order.
C21_MissingIsLoggedOncePerField ==
    Mapped /\ ~mapper.strict /\ mapper.logger =>
        /\ mapper.out.kind = "nil"
        /\ mapper.out.logs = SelectSeq(Declared, IsMissing)
        /\ \A n \in {"Top", "Sub", "Leaf"} : IsMissing(n) => AtZero(n)

\* C21 amended: without strict mode and with a logger, missing required
\* fields never make the pass fail (it returns success whenever no field
\* fails its conversion or validation, and never aborts), they are left at
\* zero, and the logger is called exactly once, in declaration order, for
\* each missing required field the pass comes to; the fields of a required
\* nested record that is itself missing are not come to.
C21_MissingIsLoggedWhereReached ==
    Mapped /\ ~mapper.strict /\ mapper.logger =>
        /\ mapper.out.kind # "panic"
        /\ NothingFails => mapper.out.kind = "nil"
        /\ mapper.out.logs =
              SelectSeq(Declared, LAMBDA n : InWalk(n) /\ IsMissing(n))
        /\ \A n \in {"Top", "Sub", "Leaf"} : IsMissing(n) => AtZero(n)

C21_Witness ==
    /\ Mapped
    /\ ~mapper.strict
    /\ mapper.logger
    /\ mapper.out.kind = "nil"
    /\ mapper.out.logs = <<"Top", "Leaf">>
    /\ mapper.out.rec.Port = 8

\* The pass that raised the abort is the nested pass over Inner: its
\* message lists a field of Inner.
NestedAbort == mapper.out.listed = <<"Leaf">>

\* C22 as stated: the strict-mode abort is raised only after every field of
\* the destination record has been examined, and its message lists all the
\* missing required fields recorded, in declaration order.
C22_AbortAfterAllFields ==
    Mapped /\ mapper.out.kind = "panic" =>
        /\ mapper.strict
        /\ \A n \in {"Top", "Sub", "Port"} : InWalk(n)
        /\ mapper.out.listed = mapper.out.met

\* C22 amended: the strict-mode abort is raised only at the end of a pass,
\* after every field of that pass's destination record has been examined,
\* and its message lists all the missing required fields that pass
\* recorded, in declaration order.  The pass over a nested record is a pass
\* of its own: it aborts at its own end, before the later fields of the
\* enclosing record are examined, and its message does not list what the
\* enclosing pass has recorded.
C22_AbortAtEndListsAll ==
    Mapped /\ mapper.out.kind = "panic" =>
        /\ mapper.strict
        /\ IF NestedAbort
           THEN /\ mapper.out.walk[Len(mapper.out.walk)] = "Leaf"
                /\ IsMissing("Leaf")
           ELSE /\ \A n \in {"Top", "Sub", "Port"} : InWalk(n)
                /\ mapper.out.walk[Len(mapper.out.walk)] = "Port"
                /\ mapper.out.listed =
                      SelectSeq(<<"Top", "Sub">>, IsMissing)

C22_Witness ==
    /\ Mapped
    /\ mapper.out.kind = "panic"
    /\ mapper.out.listed = <<"Top", "Sub">>
    /\ mapper.out.walk = <<"Top", "Sub", "Port">>
    /\ mapper.out.rec.Port = 8

\* The fields that come after the last field the pass has come to.
Later(name) == Place(name) > Place(mapper.out.walk[Len(mapper.out.walk)])

\* The field that follows name in its own record, "" for the last one.
Following(name) ==
    CASE name = "Top" -> "Sub"
      [] name = "Sub" -> "Port"
      [] name = "Leaf" -> ""
      [] name = "Port" -> ""

SpecsOf(tag) ==
    CASE tag = <<>> -> <<>>
      [] tag = TagTest -> << <<"test">> >>
      [] tag = TagBoth -> << <<"v1">>, <<"test">> >>
      [] tag = TagFirst -> << <<"test">>, <<"v1">> >>
      [] tag = TagUnknown -> << <<"v1">>, <<"unknown">> >>
      [] tag = TagSame -> << <<"same", ":", "r">> >>
      [] tag = TagMin -> << <<"min", ":", "2">> >>
      [] tag = TagV1 -> << <<"v1">> >>

ReturnsNil(spec, value) ==
    CASE spec = <<"v1">> -> TRUE
      [] spec = <<"test">> -> value.v = Valid
      [] spec = <<"same", ":", "r">> -> value.v = "r"
      [] spec = <<"min", ":", "2">> -> value.v >= 2

KindOf(name) ==
    CASE name = "Top" -> "string"
      [] name = "Sub" -> "struct"
      [] name = "Leaf" -> "string"
      [] name = "Port" -> "int"

Now(name) ==
    CASE name = "Top" -> Value("string", mapper.out.rec.Top)
      [] name = "Sub" -> Value("struct", mapper.out.rec.Sub)
      [] name = "Leaf" -> Value("string", mapper.out.rec.Sub.Leaf)
      [] name = "Port" -> Value("int", mapper.out.rec.Port)

RanFor(name) == SelectSeq(mapper.out.ran, LAMBDA e : e.field = name)

\* C24: a field's validators run only after its value has been set, in the
\* order of the specs in its validate tag; the first failing one stops the
\* field, its error is returned, and the value assigned stays assigned.
C24_ValidatorsInOrderAfterSet ==
    Mapped =>
        \A n \in {"Top", "Sub", "Leaf", "Port"} :
            LET r == RanFor(n)
                specs == SpecsOf(mapper.val[n])
            IN /\ Len(r) <= Len(specs)
               /\ \A j \in 1..Len(r) : r[j].spec = specs[j] /\ r[j].value = Now(n)
               /\ \A j \in 1..(Len(r) - 1) : ReturnsNil(r[j].spec, r[j].value)
               /\ r # <<>> /\ ~ReturnsNil(r[Len(r)].spec, r[Len(r)].value) =>
                     /\ mapper.out.kind = "err"
                     /\ mapper.out.err = IF n = "Leaf"
                                         THEN "mapping nested struct field"
                                         ELSE "validation failed"
               /\ r # <<>> /\ n # "Sub" => ~AtZero(n)
               /\ n = "Port" /\ PortFails => r = <<>>

C24_Witness ==
    /\ Mapped
    /\ mapper.val.Top = TagFirst
    /\ Len(RanFor("Top")) = 1
    /\ mapper.out.rec.Top = "r"
    /\ mapper.out.kind = "err"

Times(seq, name) == Cardinality({j \in 1..Len(seq) : seq[j] = name})

\* C29: a plain nested record marked required whose filtered value map is
\* empty gets one missing-required entry; the pass does not descend into it
\* (no child field is resolved, converted, validated or logged) and goes on
\* with the next field.
C29_RequiredEmptyNestedIsSkipped ==
    Mapped /\ InWalk("Sub") /\ SubSkipped =>
        /\ Times(mapper.out.met, "Sub") = 1
        /\ mapper.logger => Times(mapper.out.logs, "Sub") = 1
        /\ ~InWalk("Leaf")
        /\ AtZero("Leaf")
        /\ ~HasRun("Leaf") /\ ~HasRun("Sub")
        /\ ~InLogs("Leaf") /\ ~Recorded("Leaf")
        /\ InWalk("Port")

C29_Witness ==
    /\ Mapped
    /\ SubSkipped
    /\ EnvSet("LEAF")
    /\ IsRequired("Leaf")
    /\ mapper.val.Leaf = TagTest
    /\ mapper.out.walk = <<"Top", "Sub", "Port">>
    /\ mapper.out.kind = "nil"

\* ------------------------------------------------------------------------
\* validateField: how a spec is resolved
\* ------------------------------------------------------------------------
Checked25 == mapper.stage = "checked"

\* The name of a spec is what stands before its first colon, its params
\* what stands after it.
NameOf(spec) ==
    CHOOSE n \in {SubSeq(spec, 1, k) : k \in 0..Len(spec)} :
        /\ \A j \in 1..Len(n) : n[j] # ":"
        /\ n = spec \/ spec[Len(n) + 1] = ":"

ParamsOf(spec) == SubSeq(spec, Len(NameOf(spec)) + 2, Len(spec))

OneSpec(tag) ==
    tag # <<>> /\ \A j \in 1..Len(tag) : tag[j] \notin {",", " "}

IsPlain(name) == name \in DOMAIN mapper.reg.validators

IsParameterized(name) == name \in DOMAIN mapper.reg.parameterizedValidators

\* C25: a spec is split at its first colon only into name and params; with
\* params the parameterized registry is tried first and the plain one
\* second, without params only the plain one; a name in neither fails
\* with "validator not found" naming the spec and the field.
C25_SpecResolution ==
    Checked25 =>
        /\ \A j \in 1..Len(mapper.out.ran) :
              LET e == mapper.out.ran[j]
                  last == j = Len(mapper.out.ran)
              IN /\ e.from = "parameterized" =>
                       /\ ParamsOf(e.spec) # <<>>
                       /\ IsParameterized(NameOf(e.spec))
                       /\ ParamsOf(e.spec) # <<"x">> =>
                             last /\ mapper.out.err = "validation failed"
                       /\ ParamsOf(e.spec) = <<"x">> /\ last =>
                             mapper.out.err # "validation failed"
                 /\ e.from = "plain" =>
                       /\ IsPlain(NameOf(e.spec))
                       /\ \/ ParamsOf(e.spec) = <<>>
                          \/ ~IsParameterized(NameOf(e.spec))
        /\ mapper.out.err = "not found" =>
              /\ ~IsPlain(NameOf(mapper.out.spec))
              /\ \/ ParamsOf(mapper.out.spec) = <<>>
                 \/ ~IsParameterized(NameOf(mapper.out.spec))
              /\ mapper.out.field = mapper.field
        /\ OneSpec(mapper.tag) =>
              LET name == NameOf(mapper.tag)
                  params == ParamsOf(mapper.tag)
              IN IF params # <<>> /\ IsParameterized(name)
                 THEN /\ Len(mapper.out.ran) = 1
                      /\ mapper.out.ran[1].from = "parameterized"
                      /\ mapper.out.ran[1].spec = mapper.tag
                 ELSE IF IsPlain(name)
                 THEN /\ Len(mapper.out.ran) = 1
                      /\ mapper.out.ran[1].from = "plain"
                      /\ mapper.out.err = "nil"
                 ELSE /\ mapper.out.ran = <<>>
                      /\ mapper.out.err = "not found"
                      /\ mapper.out.spec = mapper.tag

C25_Witness ==
    /\ Checked25
    /\ mapper.tag = <<"t", ":", "x", ":">>
    /\ IsPlain(<<"t">>)
    /\ IsParameterized(<<"t">>)
    /\ mapper.out.err = "validation failed"
    /\ mapper.out.ran[1].from = "parameterized"

\* ------------------------------------------------------------------------
\* filterValuesByPrefix: what it returns
\* ------------------------------------------------------------------------
Filtered == mapper.stage = "filtered"

Under(key) == mapper.prefix \o <<"/">> \o key

\* C28 as stated: for a non-empty prefix p the result holds exactly one
\* entry k -> v for every input entry p/k -> v and one entry "" -> v when the
\* input has the key p, nothing else, and is determined by the input; for
\* the empty prefix the result is the input.
C28_FilterIsExactAndDetermined ==
    Filtered =>
        IF mapper.prefix = <<>>
        THEN mapper.out = mapper.values
        ELSE /\ \A k \in KeyStrings :
                   Under(k) \in DOMAIN mapper.values =>
                       /\ k \in DOMAIN mapper.out
                       /\ mapper.out[k] = mapper.values[Under(k)]
             /\ mapper.prefix \in DOMAIN mapper.values =>
                   /\ <<>> \in DOMAIN mapper.out
                   /\ mapper.out[<<>>] = mapper.values[mapper.prefix]
             /\ \A k \in DOMAIN mapper.out :
                   \/ Under(k) \in DOMAIN mapper.values
                   \/ k = <<>> /\ mapper.prefix \in DOMAIN mapper.values

\* ------------------------------------------------------------------------
\* setFieldValue: the range of a fixed-width field
\* ------------------------------------------------------------------------
Converted == mapper.stage = "converted"

InRange(kind, val) ==
    /\ val \in Numerals
    /\ IF Signed(kind)
       THEN AtMost(MinInt(Width(kind)), val) /\ AtMost(val, MaxInt(Width(kind)))
       ELSE AtMost(Num(0, 0, 0), val) /\ AtMost(val, MaxUint(Width(kind)))

\* C30 as stated: for every fixed-width integer kind, a decimal string
\* outside the kind's range fails with an error and stores nothing, and one
\* inside it stores exactly its value.
C30_OutOfRangeFails ==
    Converted /\ mapper.val \in Numerals =>
        IF InRange(mapper.kind, mapper.val)
        THEN mapper.out.ok /\ mapper.out.v = mapper.val
        ELSE ~mapper.out.ok /\ mapper.out.v = Num(0, 0, 0)

\* ------------------------------------------------------------------------
\* C26, C27: the registry under concurrent callers
\* ------------------------------------------------------------------------
Installing == {p \in Procs : vat[p].pc \in {"install", "installing", "installed"}}

AllBuiltins ==
    \A i \in 1..Len(Builtins) :
        InTable(registry, Builtins[i].table, Builtins[i].name)

HasLooked(p) == At(p, "idle") /\ vat[p].table # "none"

\* C26: whatever the number of concurrent first uses, the built-in
\* validators are registered by one caller only and once only; a pass that
\* has come back from ensureBuiltinValidators finds the flag set and all six
\* built-ins in their registries, and each of its lookups of a built-in
\* finds it.
C26_BuiltinsRegisteredOnce ==
    /\ vhist.installs <= 1
    /\ Cardinality(Installing) <= 1
    /\ registry.builtinValidatorsRegistered => vhist.installs = 1 /\ Installing = {}
    /\ \A p \in Procs :
          /\ vat[p].pc \in {"ensured", "looking"} =>
                registry.builtinValidatorsRegistered /\ AllBuiltins
          /\ HasLooked(p) => vat[p].found

\* two passes have each looked a built-in up and found it, after one
\* registration
C26_Witness ==
    /\ vhist.installs = 1
    /\ \E p, q \in Procs : p # q /\ HasLooked(p) /\ HasLooked(q)
                           /\ vat[p].found /\ vat[q].found

Reads(p) == At(p, "looking") /\ vat'[p].pc = "idle"

UnregisterReturns(p) == At(p, "unregistered one") /\ vat'[p].pc = "idle"

Writing == {p \in Procs : vat[p].pc \in {"registering", "unregistering",
                                         "unregistered one"}}

\* C27: a lookup of an entry whose registration has returned, and that no
\* unregistration has begun to remove, finds it; when UnregisterValidator
\* returns the name is in neither registry; and while a write is under way
\* (an unregistration between its two deletions included) its caller holds
\* the lock alone, so that no lookup reads the registry.
C27_RegistryIsSafe ==
    /\ [][\A p \in Procs :
            /\ Reads(p) /\ <<vat[p].table, vat[p].name>> \in vhist.live
                  => vat'[p].found
            /\ UnregisterReturns(p) =>
                  /\ vat[p].name \notin DOMAIN registry'.validators
                  /\ vat[p].name \notin DOMAIN registry'.parameterizedValidators]_vars
    /\ [](\A p \in Writing :
            /\ validatorsMu.w = p
            /\ validatorsMu.r = {}
            /\ Writing = {p}
            /\ \A q \in Procs : ~At(q, "looking"))

\* a name registered in both registries has been unregistered, and a lookup
\* of a registered entry has found it
C27_Witness ==
    /\ \E p \in Procs : HasLooked(p) /\ vat[p].found
    /\ \E q \in Procs : /\ At(q, "idle")
                        /\ vat[q].name # <<>>
                        /\ vat[q].table = "none"

\* ------------------------------------------------------------------------
\* C31, C39: ValidateRequiredFields
\* ------------------------------------------------------------------------
TopLevel == <<"Top", "Sub", "Port">>

HasChecked == mapper.stage \in {"checked", "done"} /\ "check" \in DOMAIN mapper

TagOf(name) == CHOOSE f \in {CheckedType(mapper.req)[i] : i \in 1..3} :
                   f.name = name

\* neither a non-empty environment value nor a non-empty value of the map
Valueless(name) ==
    /\ ~(TagOf(name).env # "" /\ mapper.env[TagOf(name).env] \notin {Unset, ""})
    /\ ~(TagOf(name).ssm \in DOMAIN mapper.merged
         /\ mapper.merged[TagOf(name).ssm] # "")

Lacking(name) == isRequiredField(mapper.req[name]) /\ Valueless(name)

PassDone == mapper.stage = "done" /\ "check" \in DOMAIN mapper
            /\ mapper.out.kind = "nil"

Reported(name) ==
    \E j \in 1..Len(mapper.check.listed) : mapper.check.listed[j] = name

RecordedMissing(name) ==
    \E j \in 1..Len(mapper.out.listed) : mapper.out.listed[j] = name

\* C39: for the same type, values and environment, ValidateRequiredFields
\* reports a top-level field as missing exactly when a non-strict
\* mapToStruct pass that runs to its end records it as missing-required.
C39_PreflightAgreesWithMapper ==
    PassDone =>
        \A j \in 1..Len(TopLevel) :
            Reported(TopLevel[j]) <=> RecordedMissing(TopLevel[j])

\* ------------------------------------------------------------------------
\* C32: the prefixes are independent
\* ------------------------------------------------------------------------
\* the prefix a goroutine is working on
KeyOf(p) == IF op[p] = "invalidate" THEN cur[p] ELSE arg[p]

Holds(p) == ent[p] # NoEntry

Blocked(p) == pc[p] = "wait" /\ entries[ent[p]].once # "done"

\* C32: the entries of two prefixes are two objects with two snapshots; two
\* calls on different prefixes never hold the same entry, hence never the
\* same gate; and a resolve that waits at a gate waits for a fetch of its
\* own prefix that is in flight, never for anything of another prefix.
C32_PrefixesAreIndependent ==
    /\ \A k, j \in Prefixes :
          k # j /\ cache[k] # NoEntry => cache[k] # cache[j]
    /\ \A i, j \in EntryIds :
          i # j /\ entries[i].values # Nil =>
              entries[i].values # entries[j].values
    /\ \A p, q \in Procs :
          Holds(p) /\ Holds(q) /\ KeyOf(p) # KeyOf(q) => ent[p] # ent[q]
    /\ \A p \in Procs :
          /\ op[p] = "resolve" /\ Holds(p) /\ cache[arg[p]] # ent[p] =>
                \A k \in Prefixes : cache[k] # ent[p]
          /\ Blocked(p) =>
                \E q \in Procs : /\ pc[q] = "fetching"
                                 /\ ent[q] = ent[p]
                                 /\ arg[q] = arg[p]

\* fetches for two prefixes are in flight at the same time through two gates
C32_Witness ==
    \E p, q \in Procs :
        /\ pc[p] = "fetching" /\ pc[q] = "fetching"
        /\ arg[p] # arg[q]
        /\ ent[p] # ent[q]

\* ------------------------------------------------------------------------
\* C33: deepCopy
\* ------------------------------------------------------------------------
HasCopy == mapper.stage = "copied" /\ "dst" \in DOMAIN mapper

\* C33: the copy is a record equal to the source; the copy and the source
\* reach no common object, whether nested record, array of a slice, map or
\* pointer target; and whatever is assigned through one of them afterwards,
\* the other holds what it held: the source what it held after the last
\* write made through the source, the copy likewise.
C33_DeepCopySharesNothing ==
    /\ [](HasCopy =>
            /\ mapper.dst # Nil /\ mapper.dst # mapper.src
            /\ ReachAt(mapper.heap, mapper.src)
                  \cap ReachAt(mapper.heap, mapper.dst) = {}
            /\ DeepAt(mapper.heap, mapper.src) = mapper.srcWas
            /\ DeepAt(mapper.heap, mapper.dst) = mapper.dstWas)
    /\ [][mapper.stage = "source" /\ mapper'.stage = "copied" =>
             mapper'.dstWas = mapper'.srcWas]_vars

\* the copy of a record with a pointer, slices and a map has been written
\* to, and so has the source, and they differ
C33_Witness ==
    /\ HasCopy
    /\ Cardinality(ReachAt(mapper.heap, mapper.dst)) = 6
    /\ mapper.dstWas # mapper.srcWas
    /\ \E a \in ReachAt(mapper.heap, mapper.dst) :
          /\ mapper.heap[a].k = "array"
          /\ \E i \in 1..Len(mapper.heap[a].e) :
                mapper.heap[a].e[i] = StringOf(CallerVal)
    /\ \E a \in ReachAt(mapper.heap, mapper.src) :
          /\ mapper.heap[a].k = "map"
          /\ "new" \in DOMAIN mapper.heap[a].m

\* ------------------------------------------------------------------------
\* C34: the README's file-based example
\* ------------------------------------------------------------------------
FileMapped == mapper.stage = "done"

\* C34: in FileConfig the child URL, tagged ssm:"database/url" inside the
\* record tagged ssm:"database", holds after the pass the merged value of
\* the key database/url, when there is one and DB_URL is not set.
C34_FullPathChildIsPopulated ==
    /\ FileMapped
    /\ KeyDbUrl \in DOMAIN mapper.merged
    /\ mapper.merged[KeyDbUrl] # ""
    /\ Getenv(mapper.env, "DB_URL") = ""
    => mapper.out.rec.Database.URL = mapper.merged[KeyDbUrl]

\* ------------------------------------------------------------------------
\* C35: resolves over a store that never fails
\* ------------------------------------------------------------------------
\* C35: when every fetch succeeds, no call of loadByPrefix returns an
\* error, whatever InvalidateCache does meanwhile: each returns a map.
C35_ResolveNeverFailsIfFetchesSucceed ==
    \A p \in Procs : ret[p].kind # "err"

\* ------------------------------------------------------------------------
\* C36: the refresh of the Viper provider
\* ------------------------------------------------------------------------
\* what the store holds for the key Viper asked for
InStore(key) ==
    LET ssmKey == [i \in 1..Len(key) |-> IF key[i] = "." THEN "/" ELSE key[i]]
    IN IF ssmKey \in DOMAIN mapper.store
       THEN [key |-> key, val |-> mapper.store[ssmKey], ok |-> TRUE]
       ELSE [key |-> key, val |-> "", ok |-> FALSE]

Refreshed == mapper.stage = "watching" /\ ~mapper.stale

\* C36: once a tick of the watch has run refresh after the last change of
\* the store, Get returns for each key what the store holds for it and
\* GetViperValues returns the store's values.
C36_RefreshReloadsFromStore ==
    Refreshed =>
        /\ mapper.last = "get" => mapper.got = InStore(mapper.got.key)
        /\ mapper.last = "all" =>
              mapper.all = {<<[i \in 1..Len(key) |->
                                  IF key[i] = "/" THEN "." ELSE key[i]],
                              mapper.store[key]>> : key \in DOMAIN mapper.store}

\* ------------------------------------------------------------------------
\* C37: refresh cycles that fail
\* ------------------------------------------------------------------------
\* the cycle of p returns an error
CycleFails(p) == phase[p] = "load" /\ phase'[p] = "none"

\* p takes a step of its cycle before the swap
BeforeSwap(p) ==
    phase[p] \in {"invalidate", "load"} /\ (Moves(p) \/ phase'[p] # phase[p])

\* C37: a cycle that ends in an error has not touched the exposed record
\* and has called no callback, and Refresh returns the error; when the cycle
\* is a tick's, the goroutine is back at its select, still running, and
\* with a tick waiting it begins the next cycle; that cycle, like every
\* cycle of the goroutine, loads from an entry stored after its own
\* InvalidateCache, whose fetch is a new one.
C37_FailedCycleChangesNothing ==
    /\ [][/\ \A p \in Procs :
               /\ BeforeSwap(p) =>
                     /\ config' = config
                     /\ recs'[config].c = recs[config].c
                     /\ notified'[p] = NotNotified
               /\ CycleFails(p) =>
                     /\ refreshed'[p] = "err"
                     /\ p = Loop => loop' = "run" /\ wg' = wg /\ pc'[p] = "idle"
          /\ phase[Loop] = "invalidate" /\ phase'[Loop] = "load" =>
                Loop \in entries'[ent'[Loop]].since
          /\ C12_SinceIsBirth
          /\ C12_LoadIsFresh(Loop)]_vars
    /\ [](/\ loop = "run" /\ phase[Loop] = "none" /\ pc[Loop] = "idle"
          /\ refreshed[Loop] = "err"
          /\ tick /\ calls < MaxCalls
          => ENABLED LoopTick)

\* the goroutine, alone on the handle, has begun the cycle of its next tick
\* after a cycle whose fetch failed
C37_Witness ==
    /\ phase[Loop] = "invalidate"
    /\ ent[Loop] # NoEntry
    /\ entries[ent[Loop]].fetched.kind = "err"
    /\ loop = "run"
    /\ \A p \in Procs \ {Loop} : refreshed[p] = "none" /\ phase[p] = "none"

\* a manual Refresh has returned an error
C37_WitnessManual ==
    \E p \in Procs \ {Loop} : refreshed[p] = "err" /\ phase[p] = "none"

\* ------------------------------------------------------------------------
\* C38: the builtins and the caller's validators
\* ------------------------------------------------------------------------
\* C38: whatever registrations, removals and validated passes have run, an
\* entry the caller registered and has not removed resolves to the caller's
\* function, and a name the caller removed and has not registered again is
\* in neither table.
C38_BuiltinsRespectTheCaller ==
    /\ \A e \in vhist.live : Resolved(registry, e[1], e[2]) = "v1"
    /\ \A name \in vhist.gone :
          \A table \in Tables : ~InTable(registry, table, name)

\* ------------------------------------------------------------------------
\* C40: Stop returns
\* ------------------------------------------------------------------------
\* p is inside rc.Stop()
InStop(p) == phase[p] \in {"wait", "callback"}

\* C40: every call of Stop returns, whoever makes it: a goroutine of the
\* program, for the first time or again, or the callback of a Refresh,
\* the background goroutine's included.
C40_StopReturns == \A p \in Procs : InStop(p) ~> ~InStop(p)

TypeOK ==
    /\ \A k \in Prefixes : cache[k] \in EntryIds \cup {NoEntry}
    /\ \A p \in Procs : ent[p] \in EntryIds \cup {NoEntry}
    /\ \A i \in EntryIds : entries[i].values \in MapIds \cup {Nil}
    /\ \A i \in MapIds : maps[i].used => maps[i].c \in Contents

====
